---- MODULE Spec2Model ----
(***************************************************************************)
(* The Postgres stream store of streamsource (src/postgres/pg-stream-      *)
(* store.ts): appendToStream with optimistic concurrency and retry, the    *)
(* other write operations, readStream, the write latch, subscribeToStream  *)
(* and dispose.                                                            *)
(*                                                                         *)
(* The JavaScript side is single threaded: a handler runs from one await   *)
(* to the next without interleaving, so every action below is one such     *)
(* synchronous stretch.  The database side is a set of transactions that   *)
(* interleave freely between the store's awaits.                           *)
(***************************************************************************)
EXTENDS Integers, Sequences, FiniteSets

\* ------------------------------------------------------------------ bounds
\* calls in flight in the general specification
MaxCalls == 2
\* the appends that race on one expected version, and the messages the
\* stream may hold before them
RaceCalls == 3
MaxBase == 2
\* the appends that run together with Any
AnyCalls == 2
\* the calls and the subscriptions of a behaviour with subscriptions
SubCalls == 1
\* the write operations made around a read
ReadCalls == 2
\* the write operations that run side by side around a readAll
GapCalls == 2
\* the write operations that run side by side with an all-subscription
AllCalls == 2
\* the setStreamMetadata calls made before a getStreamMetadata
MetaCalls == 2
\* the appends that run side by side with a stream subscription
OrderCalls == 2
\* the appends that race on a driver answering with the sentinel
SentinelCalls == 2
\* the appends of which some fail
FailCalls == 2
\* the subscriptions on the store's list
RegistrySubs == 2
\* the write operations made before a stream or the table is read page by
\* page, and the largest page size asked for
PagingCalls == 2
MaxPage == 2
\* the appendToStream calls made with arguments of every kind
GivenCalls == 2
\* the write operations called with reserved stream ids and odd versions
ArgCalls == 2
MaxSubs == 2

\* ------------------------------------------------------- program constants
\* ExpectedVersion.Any / ExpectedVersion.Empty (types/stream-store)
Any == -2
Empty == -1
\* AppendResultCodes.ConcurrencyIssue
ConcurrencyIssue == -9
\* retryOpts.tries
tries == 200

\* ------------------------------------------------------------- stream ids
UserStreams == {"s1"}
\* OperationalStream.Deleted, and a caller-supplied id that starts with "$"
DeletedStream == "$deleted"
toMetadataStreamId(streamId) == "$$" \o streamId
MetaStreams == {toMetadataStreamId(s) : s \in UserStreams}
AllStreams ==
  UserStreams \cup MetaStreams
    \cup {DeletedStream, "$lol", toMetadataStreamId("$lol")}

\* invariant.notOperationalStream passes: the id does not start with "$"
notOperationalStream(streamId) == streamId \in UserStreams

\* ------------------------------------------------------------------ errors
Err(kind, constraint, id) == [kind |-> kind, constraint |-> constraint, id |-> id]
NoError == Err("none", "", 0)
ConcurrencyError == Err("ConcurrencyError", "", 0)
DuplicateMessageError(id) == Err("DuplicateMessageError", "", id)
DisposedError == Err("DisposedError", "", 0)
InvalidParameterError == Err("InvalidParameterError", "", 0)
\* a unique-constraint violation raised by the driver: its message ends with
\* the constraint's name, its detail holds the offending key
UniqueViolation(constraint, id) == Err("UniqueViolation", constraint, id)
\* any other failure of the driver (connection lost, ...)
StorageFault == Err("StorageFault", "", 0)

VARIABLES
  stream,      \* the stream table: id -> [exists, version, position]
  message,     \* the message table: committed rows
  seq,         \* the position sequence: the next position to hand out
  op,          \* per call: the operation called
  arg,         \* per call: its arguments
  pc,          \* per call: where it is
  attempt,     \* per call: storage attempts started so far
  txn,         \* per call: the storage transaction of the current attempt
  out,         \* per call: how the call settled
  atCall,      \* per call: what held when it was made (history)
  entered,     \* per call: writeLatch.enter() calls made
  exited,      \* per call: writeLatch.exit() calls made
  disposing,   \* the store's disposing flag
  latchCount,  \* the write latch's count of entered sections
  waitingFor,  \* the sections that were entered when writeLatch.wait() was called
  dpc,         \* where dispose() is
  poolEnded,   \* pool.end() was called
  sub,         \* per subscription: its driver's state
  notifier,    \* the store's notifier: "none", "on", or "off" once disposed
  afterReturn, \* the subscriptions that called processMessage after dispose()
               \* had returned (history)
  rd,          \* per read: the readStream or readAll call, where it is, what
               \* its queries were answered and what it returned
  payload,     \* the data column of the metadata messages, by message id
  again,       \* a dispose() call made after dispose() has returned
  subscriptions \* the store's list of subscriptions, in the order pushed

vars == <<stream, message, seq, op, arg, pc, attempt, txn, out, atCall, entered, exited,
          disposing, latchCount, waitingFor, dpc, poolEnded, sub, notifier, afterReturn,
          rd, payload, again, subscriptions>>

\* the calls of a behaviour: each runs one operation of the public API
Calls == DOMAIN pc

storeVars == <<stream, message, seq>>
callVars == <<op, arg, pc, attempt, txn, out, atCall, entered, exited>>
lifeVars == <<disposing, latchCount, waitingFor, dpc, poolEnded>>
subVars == <<sub, notifier, afterReturn>>
readVars == <<rd>>
restVars == <<payload, again, subscriptions>>

\* the subscriptions of a behaviour
Subs == DOMAIN sub

\* ------------------------------------------------------------ the database
NoStream == [exists |-> FALSE, version |-> -1, position |-> -1]
NoTxn == [seen |-> -1, existed |-> FALSE, pending |-> {}, ret |-> NoError,
          version |-> -1, position |-> -1]
NoArg == [stream |-> "", ev |-> Any, batch |-> <<>>]

\* the operations whose procedure inserts message rows
Inserting == {"append", "setMeta", "deleteStream"}
\* the stream the rows of call c go to
Target(c) ==
  CASE op[c] = "setMeta" -> toMetadataStreamId(arg[c].stream)
    [] op[c] = "deleteStream" -> DeletedStream
    [] OTHER -> arg[c].stream
\* the stream whose version the expected version is compared with
Checked(c) == IF op[c] = "deleteStream" THEN arg[c].stream ELSE Target(c)
Pending == [status |-> "pending", err |-> NoError, streamVersion |-> -1,
            streamPosition |-> -1]
Succeeded(v, p) == [status |-> "ok", err |-> NoError, streamVersion |-> v,
                    streamPosition |-> p]
Failed(e) == [status |-> "err", err |-> e, streamVersion |-> -1,
              streamPosition |-> -1]

MessageIds == {m.id : m \in message}
RowsOf(s) == {m \in message : m.stream = s}

\* rows another transaction has inserted and not yet committed
PendingOfOthers(c) == UNION {txn[d].pending : d \in Calls \ {c}}

Range(f) == {f[i] : i \in DOMAIN f}

\* a message table without the unique key on message_id
FirstDuplicate_NoKey(batch, taken) == 0

\* the first row of the batch whose messageId is already taken (0: none)
FirstDuplicate(batch, taken) ==
  LET dup(i) == batch[i] \in taken \/ \E j \in 1..(i - 1) : batch[j] = batch[i]
      hits == {i \in 1..Len(batch) : dup(i)}
  IN IF hits = {} THEN 0 ELSE CHOOSE i \in hits : \A j \in hits : i <= j

\* The procedure's first statement compares the expected version with the
\* stream row.  A version that does not match is answered with the sentinel;
\* an insert-only append (Empty) inserts the stream row and trips its unique
\* key when the row is there; Any creates the row when it is missing.
Mismatch(c) ==
  LET row == stream[Checked(c)]
      e == arg[c].ev
  IN \/ e >= 0 /\ (~row.exists \/ row.version # e)
     \/ e = Empty /\ row.exists
     \/ e < Any

TxRead(c) ==
  /\ pc[c] = "read"
  /\ op[c] \in Inserting
  /\ ~poolEnded
  /\ IF Mismatch(c)
     THEN /\ txn' = [txn EXCEPT ![c] =
                       IF arg[c].ev = Empty /\ op[c] # "deleteStream"
                       THEN [@ EXCEPT !.ret = UniqueViolation("stream_id_key", 0)]
                       ELSE [@ EXCEPT !.version = ConcurrencyIssue]]
          /\ pc' = [pc EXCEPT ![c] = "settle"]
     ELSE /\ txn' = [txn EXCEPT ![c].seen = stream[Target(c)].version,
                                ![c].existed = stream[Target(c)].exists]
          /\ pc' = [pc EXCEPT ![c] = "insert"]
  /\ UNCHANGED <<storeVars, op, arg, attempt, out, atCall, entered, exited, lifeVars, subVars, readVars, restVars>>

\* the unique keys the rows of the batch would take
Blocked(c) ==
  \E r \in PendingOfOthers(c) :
     \/ r.stream = Target(c)
     \/ r.stream = Checked(c)
     \/ r.id \in Range(arg[c].batch)
     \/ \E d \in Calls \ {c} :
           r \in txn[d].pending /\ op[d] = "deleteStream" /\ arg[d].stream = Target(c)

VersionTaken(c) ==
  LET row == stream[Target(c)]
  IN row.exists # txn[c].existed \/ row.version # txn[c].seen

ConcurrencyViolation(c) ==
  IF ~txn[c].existed
  THEN UniqueViolation("stream_id_key", 0)
  ELSE UniqueViolation("message_stream_id_internal_stream_version_unique", 0)

\* a procedure that takes the positions of a batch from the sequence in the
\* reverse of the order given
NewRows_LastFirst(c) ==
  {[pos |-> seq + Len(arg[c].batch) - i, id |-> arg[c].batch[i], stream |-> Target(c),
    ver |-> txn[c].seen + i] : i \in 1..Len(arg[c].batch)}

\* the rows a batch becomes: consecutive versions after the version read,
\* consecutive positions from the sequence
NewRows(c) ==
  {[pos |-> seq + i - 1, id |-> arg[c].batch[i], stream |-> Target(c),
    ver |-> txn[c].seen + i] : i \in 1..Len(arg[c].batch)}

\* The inserts of the append procedure run outside a transaction: the rows
\* inserted before the row that trips the key on message_id stay.
TxInsert_KeepsPrefix(c) ==
  /\ pc[c] = "insert"
  /\ op[c] \in Inserting
  /\ ~Blocked(c)
  /\ LET d == FirstDuplicate(arg[c].batch, MessageIds)
         n == Len(arg[c].batch)
     IN \/ /\ VersionTaken(c)
           /\ txn' = [txn EXCEPT ![c].ret = ConcurrencyViolation(c)]
           /\ seq' = seq + 1
           /\ pc' = [pc EXCEPT ![c] = "settle"]
           /\ message' = message
        \/ /\ d > 0
           /\ VersionTaken(c) => d = 1
           /\ txn' = [txn EXCEPT ![c].ret =
                        UniqueViolation("message_message_id_key", arg[c].batch[d])]
           /\ seq' = seq + d
           /\ pc' = [pc EXCEPT ![c] = "settle"]
           /\ message' = message \cup
                 {[pos |-> seq + i - 1, id |-> arg[c].batch[i], stream |-> Target(c),
                   ver |-> txn[c].seen + i] : i \in 1..(d - 1)}
        \/ /\ d = 0
           /\ ~VersionTaken(c)
           /\ txn' = [txn EXCEPT ![c].pending =
                        {[pos |-> seq + i - 1, id |-> arg[c].batch[i], stream |-> Target(c),
                          ver |-> txn[c].seen + i] : i \in 1..n}]
           /\ seq' = seq + n
           /\ pc' = [pc EXCEPT ![c] = "commit"]
           /\ message' = message
  /\ UNCHANGED <<stream, op, arg, attempt, out, atCall, entered, exited, lifeVars,
               subVars, readVars, restVars>>

\* The append procedure, the inserts: row by row, each taking a position from
\* the sequence (never given back) and checked against the unique keys.  An
\* insert waits for an uncommitted row that holds the same key.
TxInsert(c) ==
  /\ pc[c] = "insert"
  /\ op[c] \in Inserting
  /\ ~Blocked(c)
  /\ LET d == FirstDuplicate(arg[c].batch, MessageIds)
         n == Len(arg[c].batch)
     IN \/ /\ VersionTaken(c)
           /\ txn' = [txn EXCEPT ![c].ret = ConcurrencyViolation(c)]
           /\ seq' = seq + 1
           /\ pc' = [pc EXCEPT ![c] = "settle"]
        \/ /\ d > 0
           /\ VersionTaken(c) => d = 1
           /\ txn' = [txn EXCEPT ![c].ret =
                        UniqueViolation("message_message_id_key", arg[c].batch[d])]
           /\ seq' = seq + d
           /\ pc' = [pc EXCEPT ![c] = "settle"]
        \/ /\ d = 0
           /\ ~VersionTaken(c)
           /\ txn' = [txn EXCEPT ![c].pending = NewRows(c)]
           /\ seq' = seq + n
           /\ pc' = [pc EXCEPT ![c] = "commit"]
  /\ UNCHANGED <<stream, message, op, arg, attempt, out, atCall, entered, exited, lifeVars,
               subVars, readVars, restVars>>

\* The append procedure, the end of the transaction: the rows become visible
\* and the stream row takes the last row's version and position.
TxCommit(c) ==
  /\ pc[c] = "commit"
  /\ op[c] \in Inserting
  /\ LET rows == txn[c].pending
         last == CHOOSE r \in rows : \A q \in rows : q.pos <= r.pos
         kept == IF op[c] = "deleteStream"
                 THEN {m \in message : m.stream # arg[c].stream}
                 ELSE message
         rowsOf == IF op[c] = "deleteStream"
                   THEN [stream EXCEPT ![arg[c].stream] = NoStream]
                   ELSE stream
     IN /\ message' = kept \cup rows
        /\ stream' = [rowsOf EXCEPT ![Target(c)] =
                        [exists |-> TRUE, version |-> last.ver, position |-> last.pos]]
        /\ txn' = [txn EXCEPT ![c].pending = {}, ![c].version = last.ver,
                              ![c].position = last.pos]
  /\ pc' = [pc EXCEPT ![c] = "settle"]
  /\ UNCHANGED <<seq, op, arg, attempt, out, atCall, entered, exited, lifeVars, subVars, readVars, restVars>>

\* The delete-messages statement: the rows of the stream with the given
\* messageIds go; the stream row keeps its version and position.  The
\* transaction notes whether there was a row to remove.
TxDeleteMessages(c) ==
  /\ pc[c] = "delete"
  /\ ~poolEnded
  /\ message' = {m \in message :
                   ~(m.stream = arg[c].stream /\ m.id \in Range(arg[c].batch))}
  /\ txn' = [txn EXCEPT ![c].existed = (message' # message)]
  /\ pc' = [pc EXCEPT ![c] = "settle"]
  /\ UNCHANGED <<stream, seq, op, arg, attempt, out, atCall, entered, exited, lifeVars, subVars, readVars, restVars>>

\* the driver fails for a reason of its own (a lost connection, a pool that
\* was ended) before the transaction has done anything
TxFault(c) ==
  /\ pc[c] \in {"read", "delete"}
  /\ txn' = [txn EXCEPT ![c].ret = StorageFault]
  /\ pc' = [pc EXCEPT ![c] = "settle"]
  /\ UNCHANGED <<storeVars, op, arg, attempt, out, atCall, entered, exited, lifeVars, subVars, readVars, restVars>>


\* a dispose() call that has not been made
NoAgain == [pc |-> "idle", subscriptions |-> {}, notifier |-> FALSE, pool |-> FALSE]

\* ------------------------------------------------------------- the latch
\* createDuplexLatch(): enter and exit count the sections; wait() is released
\* when the sections that were entered when it was called have exited
InLatch == {c \in Calls : entered[c] > exited[c]}

\* writeLatch.exit() by call c, and with it dispose()'s continuation when
\* this releases its wait: pool.end()
LatchExit(c) ==
  /\ latchCount' = latchCount - 1
  /\ exited' = [exited EXCEPT ![c] = @ + 1]
  /\ waitingFor' = waitingFor
  /\ IF dpc = "wait" /\ (waitingFor \cap InLatch) \ {c} = {}
     THEN dpc' = "ending" /\ poolEnded' = TRUE
     ELSE UNCHANGED <<dpc, poolEnded>>

\* ------------------------------------------------------------- the store
isConcurrencyUniqueConstraintViolation(err) ==
  \/ err.constraint = "stream_id_key"
  \/ err.constraint = "message_stream_id_internal_stream_version_unique"

isDuplicateMessageIdUniqueConstraintViolation(err) ==
  err.constraint = "message_message_id_key"

\* the key in the violation's detail, "...=(<uuid>)..."
extractUuidKeyFromConstraintViolationError(err) == err.id

\* what throwIfErrorCode throws for the version the procedure returned
throwIfErrorCode(version) ==
  IF version = ConcurrencyIssue THEN ConcurrencyError ELSE NoError

\* The value a retryable function throws: again(error), which asks retry for
\* another attempt and carries the error it was given, or an error that ends
\* the call.
Again(error) == [again |-> TRUE, err |-> error]
Throw(error) == [again |-> FALSE, err |-> error]

\* handlePotentialConcurrencyError taking the duplicate-id violation for one
\* more conflict that Any retries
handlePotentialConcurrencyError_RetriesDuplicate(error, expectedVersion) ==
  IF isConcurrencyUniqueConstraintViolation(error)
     \/ isDuplicateMessageIdUniqueConstraintViolation(error)
  THEN IF expectedVersion = Any
       THEN Again(error)
       ELSE Throw(ConcurrencyError)
  ELSE Throw(error)

\* handlePotentialConcurrencyError without the ConcurrencyError that stands
\* in for the violation of a call that is not retried
handlePotentialConcurrencyError_KeepsViolation(error, expectedVersion) ==
  IF isConcurrencyUniqueConstraintViolation(error)
  THEN IF expectedVersion = Any
       THEN Again(error)
       ELSE Throw(error)
  ELSE IF isDuplicateMessageIdUniqueConstraintViolation(error)
  THEN Throw(DuplicateMessageError(extractUuidKeyFromConstraintViolationError(error)))
  ELSE Throw(error)

\* handlePotentialConcurrencyError without the comparison with Any: no
\* conflict is retried
handlePotentialConcurrencyError_NeverAgain(error, expectedVersion) ==
  IF isConcurrencyUniqueConstraintViolation(error)
  THEN Throw(ConcurrencyError)
  ELSE IF isDuplicateMessageIdUniqueConstraintViolation(error)
  THEN Throw(DuplicateMessageError(extractUuidKeyFromConstraintViolationError(error)))
  ELSE Throw(error)

\* handlePotentialConcurrencyError asking for another attempt, with Any, on
\* an error it does not know
handlePotentialConcurrencyError_RetriesFault(error, expectedVersion) ==
  IF isConcurrencyUniqueConstraintViolation(error)
  THEN IF expectedVersion = Any
       THEN Again(error)
       ELSE Throw(ConcurrencyError)
  ELSE IF isDuplicateMessageIdUniqueConstraintViolation(error)
  THEN Throw(DuplicateMessageError(extractUuidKeyFromConstraintViolationError(error)))
  ELSE IF expectedVersion = Any
  THEN Again(error)
  ELSE Throw(error)

\* handlePotentialConcurrencyError asking for another attempt on a conflict
\* whatever the expected version
handlePotentialConcurrencyError_AnyVersion(error, expectedVersion) ==
  IF isConcurrencyUniqueConstraintViolation(error)
  THEN Again(error)
  ELSE IF isDuplicateMessageIdUniqueConstraintViolation(error)
  THEN Throw(DuplicateMessageError(extractUuidKeyFromConstraintViolationError(error)))
  ELSE Throw(error)

handlePotentialConcurrencyError(error, expectedVersion) ==
  IF isConcurrencyUniqueConstraintViolation(error)
  THEN IF expectedVersion = Any
       THEN Again(error)
       ELSE Throw(ConcurrencyError)
  ELSE IF isDuplicateMessageIdUniqueConstraintViolation(error)
  THEN Throw(DuplicateMessageError(extractUuidKeyFromConstraintViolationError(error)))
  ELSE Throw(error)

\* what one run of retryableAppendToStream (or retryableDeleteStream) makes
\* of the transaction's end: NoError when it returns, else the value it throws
retryableAppendToStream(t, expectedVersion) ==
  LET error == IF t.ret # NoError THEN t.ret ELSE throwIfErrorCode(t.version)
  IN IF error = NoError
     THEN Throw(NoError)
     ELSE handlePotentialConcurrencyError(error, expectedVersion)

\* retry(fn, retryOpts): another attempt when fn threw again(..) and fewer
\* than `tries` attempts were made; when none is left the error given to
\* again is thrown
retry(thrown, attempts) == thrown.again /\ attempts < tries

\* the invariant.* checks of appendToStream
ValidAppend(streamId, expectedVersion, newMessages) ==
  /\ streamId # ""
  /\ notOperationalStream(streamId)

Called(c, operation, streamId, expectedVersion, ids) ==
  /\ pc[c] = "idle"
  /\ op' = [op EXCEPT ![c] = operation]
  /\ arg' = [arg EXCEPT ![c] = [stream |-> streamId, ev |-> expectedVersion,
                                batch |-> ids]]
  /\ atCall' = [atCall EXCEPT ![c] = [disposing |-> disposing,
                                      known |-> Range(ids) \cap MessageIds]]

\* appendToStream up to its first await: the checks, the dispose gate,
\* writeLatch.enter() and the start of the first attempt
AppendToStream(c, streamId, expectedVersion, newMessages) ==
  /\ Called(c, "append", streamId, expectedVersion, newMessages)
  /\ IF ~ValidAppend(streamId, expectedVersion, newMessages)
     THEN /\ out' = [out EXCEPT ![c] = Failed(InvalidParameterError)]
          /\ pc' = [pc EXCEPT ![c] = "done"]
          /\ UNCHANGED <<attempt, entered, latchCount>>
     ELSE IF disposing
     THEN /\ out' = [out EXCEPT ![c] = Failed(DisposedError)]
          /\ pc' = [pc EXCEPT ![c] = "done"]
          /\ UNCHANGED <<attempt, entered, latchCount>>
     ELSE /\ latchCount' = latchCount + 1
          /\ entered' = [entered EXCEPT ![c] = @ + 1]
          /\ attempt' = [attempt EXCEPT ![c] = 1]
          /\ pc' = [pc EXCEPT ![c] = "read"]
          /\ out' = out
  /\ UNCHANGED <<storeVars, txn, exited, disposing, waitingFor, dpc, poolEnded, subVars, readVars, restVars>>

\* The arguments as the JavaScript values a caller can pass: a value has a
\* type; a string has its text, a number its value.  A UUID is the string
\* "uuid" with the number that tells one UUID from another.
JsValue(type, str, num) == [type |-> type, str |-> str, num |-> num]
undefined == JsValue("undefined", "", 0)
JsFalse == JsValue("boolean", "false", 0)
JsString(str) == JsValue("string", str, 0)
JsNumber(num) == JsValue("number", "", num)
Uuid(n) == JsValue("string", "uuid", n)
null == JsValue("null", "", 0)
\* an object, told from others by its name; {} is the empty one
JsObject(name) == JsValue("object", name, 0)
\* value || other
OrElse(value, other) ==
  IF \/ value.type \in {"undefined", "null"}
     \/ value.type = "number" /\ value.num = 0
     \/ value.type = "string" /\ value.str = ""
     \/ value = JsFalse
  THEN other ELSE value
NewMessage(messageId, type, data) ==
  [messageId |-> messageId, type |-> type, data |-> data]

\* invariant.required, invariant.requiredString, invariant.uuid
required(value) == value.type \notin {"undefined", "null"}
requiredString(value) == value.type = "string" /\ value.str # ""
uuid(value) == value.type = "string" /\ value.str = "uuid"

\* the messageIds of a batch, as the storage gets them
IdsOf(newMessages) == [i \in DOMAIN newMessages |-> newMessages[i].messageId.num]

\* the checks of appendToStream without invariant.uuid
ValidArguments_NoUuid(streamId, expectedVersion, newMessages) ==
  /\ requiredString(streamId)
  /\ ValidAppend(streamId.str, expectedVersion.num, IdsOf(newMessages))
  /\ required(expectedVersion)
  /\ \A i \in DOMAIN newMessages :
        /\ required(newMessages[i].messageId)
        /\ required(newMessages[i].type)
        /\ required(newMessages[i].data)

\* the invariant.* checks of appendToStream, on the values as they are given
ValidArguments(streamId, expectedVersion, newMessages) ==
  /\ requiredString(streamId)
  /\ ValidAppend(streamId.str, expectedVersion.num, IdsOf(newMessages))
  /\ required(expectedVersion)
  /\ \A i \in DOMAIN newMessages :
        /\ required(newMessages[i].messageId)
        /\ uuid(newMessages[i].messageId)
        /\ required(newMessages[i].type)
        /\ required(newMessages[i].data)

\* appendToStream called with JavaScript values: the checks throw before
\* anything else is done; values that pass are the strings and numbers the
\* rest of the function works with
AppendToStreamWith(c, streamId, expectedVersion, newMessages) ==
  IF ValidArguments(streamId, expectedVersion, newMessages)
  THEN AppendToStream(c, streamId.str, expectedVersion.num, IdsOf(newMessages))
  ELSE /\ Called(c, "append", streamId.str, expectedVersion.num, IdsOf(newMessages))
       /\ out' = [out EXCEPT ![c] = Failed(InvalidParameterError)]
       /\ pc' = [pc EXCEPT ![c] = "done"]
       /\ UNCHANGED <<storeVars, attempt, txn, entered, exited, lifeVars, subVars, readVars, restVars>>

\* appendToStream with writeLatch.exit() after the awaited retry instead of
\* in a finally block: a call that fails leaves the latch entered
AppendSettle_ExitOnSuccess(c) ==
  /\ pc[c] = "settle"
  /\ op[c] = "append"
  /\ LET thrown == retryableAppendToStream(txn[c], arg[c].ev)
     IN IF retry(thrown, attempt[c])
        THEN /\ attempt' = [attempt EXCEPT ![c] = @ + 1]
             /\ txn' = [txn EXCEPT ![c] = NoTxn]
             /\ pc' = [pc EXCEPT ![c] = "read"]
             /\ UNCHANGED <<out, exited, latchCount, waitingFor, dpc, poolEnded>>
        ELSE /\ IF thrown.err = NoError
                THEN /\ out' = [out EXCEPT ![c] =
                                  Succeeded(txn[c].version, txn[c].position)]
                     /\ LatchExit(c)
                ELSE /\ out' = [out EXCEPT ![c] = Failed(thrown.err)]
                     /\ UNCHANGED <<exited, latchCount, waitingFor, dpc, poolEnded>>
             /\ pc' = [pc EXCEPT ![c] = "done"]
             /\ UNCHANGED <<attempt, txn>>
  /\ UNCHANGED <<storeVars, op, arg, atCall, entered, disposing, subVars, readVars, restVars>>

\* appendToStream with current_position returned as the stream version
AppendSettle_ReturnsPosition(c) ==
  /\ pc[c] = "settle"
  /\ op[c] = "append"
  /\ LET thrown == retryableAppendToStream(txn[c], arg[c].ev)
     IN IF retry(thrown, attempt[c])
        THEN /\ attempt' = [attempt EXCEPT ![c] = @ + 1]
             /\ txn' = [txn EXCEPT ![c] = NoTxn]
             /\ pc' = [pc EXCEPT ![c] = "read"]
             /\ UNCHANGED <<out, exited, latchCount, waitingFor, dpc, poolEnded>>
        ELSE /\ out' = [out EXCEPT ![c] =
                          IF thrown.err = NoError
                          THEN Succeeded(txn[c].position, txn[c].position)
                          ELSE Failed(thrown.err)]
             /\ LatchExit(c)
             /\ pc' = [pc EXCEPT ![c] = "done"]
             /\ UNCHANGED <<attempt, txn>>
  /\ UNCHANGED <<storeVars, op, arg, atCall, entered, disposing, subVars, readVars, restVars>>

\* appendToStream after an attempt's transaction has ended: the attempt's
\* result or error, retry's decision, and, when the call ends, the finally
\* block's writeLatch.exit()
AppendSettle(c) ==
  /\ pc[c] = "settle"
  /\ op[c] = "append"
  /\ LET thrown == retryableAppendToStream(txn[c], arg[c].ev)
     IN IF retry(thrown, attempt[c])
        THEN /\ attempt' = [attempt EXCEPT ![c] = @ + 1]
             /\ txn' = [txn EXCEPT ![c] = NoTxn]
             /\ pc' = [pc EXCEPT ![c] = "read"]
             /\ UNCHANGED <<out, exited, latchCount, waitingFor, dpc, poolEnded>>
        ELSE /\ out' = [out EXCEPT ![c] =
                          IF thrown.err = NoError
                          THEN Succeeded(txn[c].version, txn[c].position)
                          ELSE Failed(thrown.err)]
             /\ LatchExit(c)
             /\ pc' = [pc EXCEPT ![c] = "done"]
             /\ UNCHANGED <<attempt, txn>>
  /\ UNCHANGED <<storeVars, op, arg, atCall, entered, disposing, subVars, readVars, restVars>>

\* the messageId v4() gives the operational message of call c
v4(c) == 100 + c

\* setStreamMetadata's options, and the data of the metadata message made
\* from them
SetStreamMetadataOptions(metadata, maxAge, maxCount) ==
  [metadata |-> metadata, maxAge |-> maxAge, maxCount |-> maxCount]
MetadataOf(opts) ==
  [metadata |-> OrElse(opts.metadata, JsObject("{}")),
   maxAge |-> OrElse(opts.maxAge, null),
   maxCount |-> OrElse(opts.maxCount, null)]

\* setStreamMetadata up to its first await: the checks and
\* writeLatch.enter(); the transaction appends the metadata message, with the
\* data made from the options, to the metadata stream.  Noted with the data:
\* the options of the call (history).
SetStreamMetadataWith(c, streamId, expectedVersion, opts) ==
  /\ Called(c, "setMeta", streamId, expectedVersion, <<v4(c)>>)
  /\ IF streamId = ""
     THEN /\ out' = [out EXCEPT ![c] = Failed(InvalidParameterError)]
          /\ pc' = [pc EXCEPT ![c] = "done"]
          /\ UNCHANGED <<attempt, entered, latchCount, payload>>
     ELSE /\ latchCount' = latchCount + 1
          /\ entered' = [entered EXCEPT ![c] = @ + 1]
          /\ attempt' = [attempt EXCEPT ![c] = 1]
          /\ pc' = [pc EXCEPT ![c] = "read"]
          /\ out' = out
          /\ payload' = payload \cup {[id |-> v4(c), data |-> MetadataOf(opts),
                                       opts |-> opts]}
  /\ UNCHANGED <<storeVars, txn, exited, disposing, waitingFor, dpc, poolEnded, subVars,
                 readVars, again, subscriptions>>

\* setStreamMetadata(streamId, expectedVersion, {metadata: {}})
SetStreamMetadata(c, streamId, expectedVersion) ==
  SetStreamMetadataWith(c, streamId, expectedVersion,
                        SetStreamMetadataOptions(JsObject("{}"), undefined, undefined))

\* setStreamMetadata after its transaction: an error of the transaction goes
\* to the caller as it is, the sentinel becomes a ConcurrencyError; the
\* finally block's writeLatch.exit()
SetMetadataSettle(c) ==
  /\ pc[c] = "settle"
  /\ op[c] = "setMeta"
  /\ LET error == IF txn[c].ret # NoError THEN txn[c].ret
                  ELSE throwIfErrorCode(txn[c].version)
     IN out' = [out EXCEPT ![c] =
                  IF error = NoError
                  THEN Succeeded(txn[c].version, txn[c].position)
                  ELSE Failed(error)]
  /\ LatchExit(c)
  /\ pc' = [pc EXCEPT ![c] = "done"]
  /\ UNCHANGED <<storeVars, op, arg, attempt, txn, atCall, entered, disposing, subVars, readVars, restVars>>

\* deleteStream up to its first await: the checks, writeLatch.enter(), the
\* start of the first attempt, and the finally block's writeLatch.exit(),
\* which runs as soon as retry's promise is returned (it is not awaited)
DeleteStream(c, streamId, expectedVersion) ==
  /\ Called(c, "deleteStream", streamId, expectedVersion, <<v4(c)>>)
  /\ IF streamId = "" \/ ~notOperationalStream(streamId)
     THEN /\ out' = [out EXCEPT ![c] = Failed(InvalidParameterError)]
          /\ pc' = [pc EXCEPT ![c] = "done"]
          /\ UNCHANGED <<attempt, entered, exited>>
     ELSE /\ entered' = [entered EXCEPT ![c] = @ + 1]
          /\ exited' = [exited EXCEPT ![c] = @ + 1]
          /\ attempt' = [attempt EXCEPT ![c] = 1]
          /\ pc' = [pc EXCEPT ![c] = "read"]
          /\ out' = out
  /\ UNCHANGED <<storeVars, txn, lifeVars, subVars, readVars, restVars>>

\* deleteStream after an attempt's transaction has ended
DeleteStreamSettle(c) ==
  /\ pc[c] = "settle"
  /\ op[c] = "deleteStream"
  /\ LET thrown == retryableAppendToStream(txn[c], arg[c].ev)
     IN IF retry(thrown, attempt[c])
        THEN /\ attempt' = [attempt EXCEPT ![c] = @ + 1]
             /\ txn' = [txn EXCEPT ![c] = NoTxn]
             /\ pc' = [pc EXCEPT ![c] = "read"]
             /\ out' = out
        ELSE /\ out' = [out EXCEPT ![c] =
                          IF thrown.err = NoError
                          THEN Succeeded(-1, -1)
                          ELSE Failed(thrown.err)]
             /\ pc' = [pc EXCEPT ![c] = "done"]
             /\ UNCHANGED <<attempt, txn>>
  /\ UNCHANGED <<storeVars, op, arg, atCall, entered, exited, lifeVars, subVars, readVars, restVars>>

\* deleteMessage -> deleteMessages up to its first await: writeLatch.enter()
DeleteMessage(c, streamId, messageId) ==
  /\ Called(c, "deleteMessage", streamId, Any, <<messageId>>)
  /\ latchCount' = latchCount + 1
  /\ entered' = [entered EXCEPT ![c] = @ + 1]
  /\ attempt' = [attempt EXCEPT ![c] = 1]
  /\ pc' = [pc EXCEPT ![c] = "delete"]
  /\ UNCHANGED <<storeVars, txn, out, exited, disposing, waitingFor, dpc, poolEnded, subVars, readVars, restVars>>

\* deleteMessages after its transaction: the finally block's writeLatch.exit()
DeleteMessagesSettle(c) ==
  /\ pc[c] = "settle"
  /\ op[c] = "deleteMessage"
  /\ out' = [out EXCEPT ![c] =
               IF txn[c].ret = NoError THEN Succeeded(-1, -1) ELSE Failed(txn[c].ret)]
  /\ LatchExit(c)
  /\ pc' = [pc EXCEPT ![c] = "done"]
  /\ UNCHANGED <<storeVars, op, arg, attempt, txn, atCall, entered, disposing, subVars, readVars, restVars>>

\* ---------------------------------------------------------------- dispose
\* subscription.dispose(): the waits of the driver are cancelled, a
\* processMessage that runs is awaited, then the dispose callback takes the
\* subscription off the store's list
disposeSubscription(r) ==
  IF r.state = "processing"
  THEN [r EXCEPT !.state = "stopping"]
  ELSE [r EXCEPT !.state = "disposed", !.tracked = FALSE, !.page = <<>>]

\* Array.prototype.indexOf, counting from 0: -1 when the element is not there
indexOf(array, element) ==
  LET at == {i \in 1..Len(array) : array[i] = element}
  IN IF at = {} THEN -1 ELSE (CHOOSE i \in at : \A j \in at : i <= j) - 1

\* Array.prototype.splice(start, 1): the element at start is removed; a
\* negative start counts from the end of the array
splice(array, start) ==
  LET n == Len(array)
      from == IF start >= 0 THEN start ELSE IF n + start >= 0 THEN n + start ELSE 0
  IN IF from >= n
     THEN array
     ELSE [i \in 1..(n - 1) |-> IF i <= from THEN array[i] ELSE array[i + 1]]

\* the dispose callback the store gives the driver of a subscription:
\* subscriptions.splice(subscriptions.indexOf(subscription), 1)
disposeCallback(array, subscription) == splice(array, indexOf(array, subscription))

\* the list after the dispose callbacks of the subscriptions that dispose()
\* has disposed at once, each of which is on the list
Kept(array, drivers) == SelectSeq(array, LAMBDA s : drivers[s].tracked)

\* dispose() whose writeLatch.wait() waits for every section, those entered
\* later as well
DisposeWrites_WaitsForAll ==
  /\ notifier' = IF notifier = "on" THEN "off" ELSE notifier
  /\ IF InLatch = {}
     THEN dpc' = "ending" /\ poolEnded' = TRUE /\ waitingFor' = waitingFor
     ELSE dpc' = "wait" /\ waitingFor' = Calls /\ poolEnded' = poolEnded

\* dispose() from notifier.dispose() on: the notifier, if there is one, is
\* disposed; with no section in the latch writeLatch.wait() is resolved and
\* pool.end() is called
DisposeWrites ==
  /\ notifier' = IF notifier = "on" THEN "off" ELSE notifier
  /\ IF InLatch = {}
     THEN dpc' = "ending" /\ poolEnded' = TRUE /\ waitingFor' = waitingFor
     ELSE dpc' = "wait" /\ waitingFor' = InLatch /\ poolEnded' = poolEnded

\* dispose() without the await of writeLatch.wait(): the pool is ended at once
Dispose_NoWait ==
  /\ dpc = "idle"
  /\ disposing' = TRUE
  /\ sub' = [s \in Subs |-> IF sub[s].tracked THEN disposeSubscription(sub[s])
                            ELSE sub[s]]
  /\ notifier' = IF notifier = "on" THEN "off" ELSE notifier
  /\ subscriptions' = Kept(subscriptions, sub')
  /\ dpc' = "ending"
  /\ poolEnded' = TRUE
  /\ UNCHANGED <<storeVars, callVars, readVars, payload, again, latchCount, waitingFor,
                 afterReturn>>

\* dispose() up to the await it stops at: the flag is set and dispose() is
\* called on every subscription of the list; when none of them has to wait
\* for its processMessage, dispose() goes on to the notifier and the latch
Dispose ==
  /\ dpc = "idle"
  /\ disposing' = TRUE
  /\ sub' = [s \in Subs |-> IF sub[s].tracked THEN disposeSubscription(sub[s])
                            ELSE sub[s]]
  /\ IF \E s \in Subs : sub'[s].state = "stopping"
     THEN dpc' = "subs" /\ UNCHANGED <<notifier, waitingFor, poolEnded>>
     ELSE DisposeWrites
  /\ subscriptions' = Kept(subscriptions, sub')
  /\ UNCHANGED <<storeVars, callVars, readVars, payload, again, latchCount, afterReturn>>

\* the subscriptions dispose() waits for are disposed: dispose() goes on
DisposeSubscriptionsDone ==
  /\ dpc = "subs"
  /\ \A s \in Subs : sub[s].state # "stopping"
  /\ DisposeWrites
  /\ UNCHANGED <<storeVars, callVars, readVars, restVars, disposing, latchCount, sub, afterReturn>>

\* pool.end() has resolved: dispose() returns
DisposeReturn ==
  /\ dpc = "ending"
  /\ dpc' = "returned"
  /\ UNCHANGED <<storeVars, callVars, readVars, restVars, disposing, latchCount, waitingFor, poolEnded, subVars>>

\* dispose() called on a store whose dispose() has returned, up to its first
\* await: the flag is set again and dispose() is called on every
\* subscription that is on the list, which are those made since
DisposeAgain ==
  /\ dpc = "returned"
  /\ again.pc = "idle"
  /\ disposing' = TRUE
  /\ sub' = [s \in Subs |-> IF sub[s].tracked THEN disposeSubscription(sub[s])
                            ELSE sub[s]]
  /\ again' = [again EXCEPT !.pc = "subs",
                            !.subscriptions = {s \in Subs : sub[s].tracked}]
  /\ subscriptions' = Kept(subscriptions, sub')
  /\ payload' = payload
  /\ UNCHANGED <<storeVars, callVars, readVars, latchCount, waitingFor, dpc, poolEnded,
                 notifier, afterReturn>>

\* the second dispose() going on: the store still holds its notifier, which
\* is disposed once more, and with no section in the latch
\* writeLatch.wait() is resolved and pool.end() is called once more
DisposeAgainWrites ==
  /\ again.pc = "subs"
  /\ \A s \in Subs : sub[s].state # "stopping"
  /\ InLatch = {}
  /\ again' = [again EXCEPT !.pc = "ending", !.notifier = notifier # "none",
                            !.pool = TRUE]
  /\ notifier' = IF notifier = "on" THEN "off" ELSE notifier
  /\ UNCHANGED <<payload, subscriptions>>
  /\ UNCHANGED <<storeVars, callVars, readVars, lifeVars, sub, afterReturn>>

\* the second pool.end() has settled: the pool was ended before, and whether
\* it resolves or rejects a second end() is the pool's matter, so the second
\* dispose() returns or fails
DisposeAgainReturn ==
  /\ again.pc = "ending"
  /\ \E end \in {"returned", "failed"} : again' = [again EXCEPT !.pc = end]
  /\ UNCHANGED <<payload, subscriptions>>
  /\ UNCHANGED <<storeVars, callVars, readVars, lifeVars, subVars>>

\* ------------------------------------------------------------------ reads
\* Position.End, and the version readStream reads from in its place
\* (Number.MAX_SAFE_INTEGER: above every version there is)
PositionEnd == -1
MaxSafeInteger == 2147483647

Max(a, b) == IF a >= b THEN a ELSE b
Min(a, b) == IF a <= b THEN a ELSE b

\* the rows of a set in ascending (forward) or descending order of version
RECURSIVE Ordered(_, _)
Ordered(rows, forward) ==
  IF rows = {} THEN <<>>
  ELSE LET first == CHOOSE r \in rows :
                      \A q \in rows : IF forward THEN r.ver <= q.ver ELSE r.ver >= q.ver
       IN <<first>> \o Ordered(rows \ {first}, forward)

\* scripts.readStreamMessages: at most `limit` rows of the stream from a
\* version on, in the direction read
readStreamMessages(streamId, fromVersion, limit, forward) ==
  LET rows == {m \in RowsOf(streamId) :
                 IF forward THEN m.ver >= fromVersion ELSE m.ver <= fromVersion}
      ordered == Ordered(rows, forward)
  IN SubSeq(ordered, 1, Min(limit, Len(ordered)))

\* a mapping that takes the position from the stream version
mapMessageResult_VersionAsPosition(row) ==
  [streamId |-> row.stream, messageId |-> row.id, position |-> row.ver,
   streamVersion |-> row.ver]

mapMessageResult(row) ==
  [streamId |-> row.stream, messageId |-> row.id, position |-> row.pos,
   streamVersion |-> row.ver]

\* mapReadStreamResult going on, backward, at the last message's version
\* instead of the version below it
mapReadStreamResult_AtLast(messages, streamInfo, isEnd, forward) ==
  LET lastMessage == messages[Len(messages)]
  IN [streamVersion |-> streamInfo.version,
      streamPosition |-> streamInfo.position,
      nextVersion |->
        IF forward
        THEN (IF Len(messages) > 0
              THEN (IF isEnd THEN streamInfo.version ELSE lastMessage.ver)
              ELSE streamInfo.version) + 1
        ELSE Max(0, IF isEnd THEN 0 ELSE lastMessage.ver),
      isEnd |-> isEnd,
      messages |-> [i \in DOMAIN messages |-> mapMessageResult(messages[i])]]

\* mapReadStreamResult going on, forward, from the last message's version
\* when the page is the last one
mapReadStreamResult_FromLast(messages, streamInfo, isEnd, forward) ==
  LET lastMessage == messages[Len(messages)]
  IN [streamVersion |-> streamInfo.version,
      streamPosition |-> streamInfo.position,
      nextVersion |->
        IF forward
        THEN (IF Len(messages) > 0
              THEN lastMessage.ver
              ELSE streamInfo.version) + 1
        ELSE Max(0, (IF isEnd THEN 0 ELSE lastMessage.ver) - 1),
      isEnd |-> isEnd,
      messages |-> [i \in DOMAIN messages |-> mapMessageResult(messages[i])]]

mapReadStreamResult(messages, streamInfo, isEnd, forward) ==
  LET lastMessage == messages[Len(messages)]
  IN [streamVersion |-> streamInfo.version,
      streamPosition |-> streamInfo.position,
      nextVersion |->
        IF forward
        THEN (IF Len(messages) > 0
              THEN (IF isEnd THEN streamInfo.version ELSE lastMessage.ver)
              ELSE streamInfo.version) + 1
        ELSE Max(0, (IF isEnd THEN 0 ELSE lastMessage.ver) - 1),
      isEnd |-> isEnd,
      messages |-> [i \in DOMAIN messages |-> mapMessageResult(messages[i])]]

\* readStream passing the direction the wrong way round
ReadStream_Reversed(streamId, fromVersionInclusive, count, forward) ==
  LET from == IF fromVersionInclusive = PositionEnd THEN MaxSafeInteger
              ELSE fromVersionInclusive
      rows == readStreamMessages(streamId, Max(0, from), count + 1, ~forward)
      streamInfo == stream[streamId]
      isEnd == Len(rows) # count + 1
      messages == IF isEnd THEN rows ELSE SubSeq(rows, 1, Len(rows) - 1)
  IN IF ~streamInfo.exists
     THEN [streamVersion |-> 0, streamPosition |-> 0, nextVersion |-> 0,
           isEnd |-> TRUE, messages |-> <<>>]
     ELSE mapReadStreamResult(messages, streamInfo, isEnd, forward)

\* the result of readStream for a stream that is not there
ZeroResult ==
  [streamVersion |-> 0, streamPosition |-> 0, nextVersion |-> 0,
   isEnd |-> TRUE, messages |-> <<>>]

\* readStream's message query without the mapping of Position.End
ReadStreamQuery_NoEnd(streamId, fromVersionInclusive, count, forward) ==
  readStreamMessages(streamId, Max(0, fromVersionInclusive), count + 1, forward)

\* readStream's message query asking for count rows, without the probe row
ReadStreamQuery_NoProbe(streamId, fromVersionInclusive, count, forward) ==
  LET from == IF fromVersionInclusive = PositionEnd THEN MaxSafeInteger
              ELSE fromVersionInclusive
  IN readStreamMessages(streamId, Max(0, from), count, forward)

\* readStream up to its message query: Position.End becomes
\* Number.MAX_SAFE_INTEGER, and count + 1 rows are asked for
ReadStreamQuery(streamId, fromVersionInclusive, count, forward) ==
  LET from == IF fromVersionInclusive = PositionEnd THEN MaxSafeInteger
              ELSE fromVersionInclusive
  IN readStreamMessages(streamId, Max(0, from), count + 1, forward)

\* readStream from the answers of its two queries on: the zero result when
\* there is no stream row, else the page without the probe row
ReadStreamReturn(rows, streamInfo, count, forward) ==
  LET isEnd == Len(rows) # count + 1
      messages == IF isEnd THEN rows ELSE SubSeq(rows, 1, Len(rows) - 1)
  IN IF ~streamInfo.exists
     THEN ZeroResult
     ELSE mapReadStreamResult(messages, streamInfo, isEnd, forward)

\* readStream with the message query and the info query answered from the
\* same state of the tables
ReadStream(streamId, fromVersionInclusive, count, forward) ==
  ReadStreamReturn(ReadStreamQuery(streamId, fromVersionInclusive, count, forward),
                   stream[streamId], count, forward)

\* MAX_BIG_VALUE, the largest position there is; the model's integers have
\* 32 bits, its largest stands for 9223372036854775807
MaxBigValue == 2147483647
\* config.gapReloadTimes, by default
gapReloadTimes == 1

\* the rows of a set in ascending (forward) or descending order of position
RECURSIVE OrderedByPosition(_, _)
OrderedByPosition(rows, forward) ==
  IF rows = {} THEN <<>>
  ELSE LET first == CHOOSE r \in rows :
                      \A q \in rows : IF forward THEN r.pos <= q.pos ELSE r.pos >= q.pos
       IN <<first>> \o OrderedByPosition(rows \ {first}, forward)

\* scripts.readAllMessages: at most `limit` rows of the message table from a
\* position on, in the direction read
readAllMessages(limit, fromPosition, forward) ==
  LET rows == {m \in message :
                 IF forward THEN m.pos >= fromPosition ELSE m.pos <= fromPosition}
      ordered == OrderedByPosition(rows, forward)
  IN SubSeq(ordered, 1, Min(limit, Len(ordered)))

\* readAllInternal without the floor of the position before the page
readAllInternal_NoFloor(fromPositionInclusive, count, forward) ==
  LET from == IF fromPositionInclusive = PositionEnd THEN MaxBigValue
              ELSE fromPositionInclusive
      rows == readAllMessages(count + 1, from, forward)
      isEnd == Len(rows) # count + 1
      messages == IF isEnd THEN rows ELSE SubSeq(rows, 1, Len(rows) - 1)
      lastMessage == messages[Len(messages)]
  IN IF Len(rows) = 0
     THEN [isEnd |-> TRUE, messages |-> <<>>,
           nextPosition |-> IF forward THEN from ELSE 0]
     ELSE [isEnd |-> isEnd,
           nextPosition |-> IF forward THEN lastMessage.pos + 1
                            ELSE lastMessage.pos - 1,
           messages |-> [i \in DOMAIN messages |-> mapMessageResult(messages[i])]]

\* readAllInternal.  A position is a decimal string in the store and the
\* number it spells here; the big-integer arithmetic is arithmetic on it.
readAllInternal(fromPositionInclusive, count, forward) ==
  LET from == IF fromPositionInclusive = PositionEnd THEN MaxBigValue
              ELSE fromPositionInclusive
      rows == readAllMessages(count + 1, from, forward)
      isEnd == Len(rows) # count + 1
      messages == IF isEnd THEN rows ELSE SubSeq(rows, 1, Len(rows) - 1)
      lastMessage == messages[Len(messages)]
  IN IF Len(rows) = 0
     THEN [isEnd |-> TRUE, messages |-> <<>>,
           nextPosition |-> IF forward THEN from ELSE 0]
     ELSE [isEnd |-> isEnd,
           nextPosition |-> IF forward THEN lastMessage.pos + 1
                            ELSE Max(lastMessage.pos - 1, 0),
           messages |-> [i \in DOMAIN messages |-> mapMessageResult(messages[i])]]

\* a test that looks for a gap in a page that is not full as well
HasGap_AnyPage(page, count) ==
  \E i \in 1..(Len(page.messages) - 1) :
     page.messages[i + 1].position - page.messages[i].position > 1

\* detectGapsAndReloadAll, its test: the page is full and two neighbours of
\* it are more than one position apart
HasGap(page, count) ==
  /\ Len(page.messages) >= count
  /\ \E i \in 1..(Len(page.messages) - 1) :
        page.messages[i + 1].position - page.messages[i].position > 1

\* a read that has not been made
NoRead ==
  [pc |-> "idle", all |-> FALSE, streamId |-> "", from |-> 0, count |-> 0,
   forward |-> TRUE, rows |-> <<>>, table |-> {}, before |-> NoStream,
   info |-> NoStream, deleted |-> {}, reloads |-> 0, pages |-> <<>>,
   result |-> ZeroResult, got |-> <<>>, turns |-> 0]

\* readStream up to the answer of its first query, the messages.  Noted
\* with it: the message table and the stream row as they were then.
ReadStreamMessages(r, streamId, fromVersionInclusive, count, forward) ==
  /\ rd[r].pc = "idle"
  /\ count > 0
  /\ ~poolEnded
  /\ rd' = [rd EXCEPT ![r] =
              [NoRead EXCEPT !.pc = "info", !.streamId = streamId,
                             !.from = fromVersionInclusive, !.count = count,
                             !.forward = forward,
                             !.rows = ReadStreamQuery(streamId, fromVersionInclusive,
                                                      count, forward),
                             !.table = message,
                             !.before = stream[streamId]]]
  /\ UNCHANGED <<storeVars, callVars, lifeVars, subVars, restVars>>

\* readStream with the info query placed before the message query: the
\* stream row is the one of the first answer, the messages those of the second
ReadStreamInfo_First(r) ==
  /\ rd[r].pc = "info"
  /\ rd' = [rd EXCEPT ![r].pc = "done",
                      ![r].info = rd[r].before,
                      ![r].deleted = RowsOf(DeletedStream) \ rd[r].table,
                      ![r].result =
                        ReadStreamReturn(ReadStreamQuery(rd[r].streamId, rd[r].from,
                                                         rd[r].count, rd[r].forward),
                                         rd[r].before, rd[r].count, rd[r].forward)]
  /\ UNCHANGED <<storeVars, callVars, lifeVars, subVars, restVars>>

\* readStream from the answer of its second query, the stream info, on.
\* Noted with it: the deletions of streams recorded since the first query.
ReadStreamInfo(r) ==
  /\ rd[r].pc = "info"
  /\ rd' = [rd EXCEPT ![r].pc = "done",
                      ![r].info = stream[rd[r].streamId],
                      ![r].deleted = RowsOf(DeletedStream) \ rd[r].table,
                      ![r].result = ReadStreamReturn(rd[r].rows, stream[rd[r].streamId],
                                                     rd[r].count, rd[r].forward)]
  /\ UNCHANGED <<storeVars, callVars, lifeVars, subVars, restVars>>

\* the data column of the message with the id
DataOf(messageId) == (CHOOSE row \in payload : row.id = messageId).data

\* getStreamMetadata that takes the first message of the metadata stream
GetStreamMetadata_Forward(r, streamId) ==
  /\ streamId # ""
  /\ ReadStreamMessages(r, toMetadataStreamId(streamId), 0, 1, TRUE)

\* getStreamMetadata up to the answer of readStream's first query: it reads
\* one message of the metadata stream backward from the end
GetStreamMetadata(r, streamId) ==
  /\ streamId # ""
  /\ ReadStreamMessages(r, toMetadataStreamId(streamId), PositionEnd, 1, FALSE)

\* what getStreamMetadata returns for the result of its readStream
getStreamMetadata(result) ==
  IF Len(result.messages) # 1
  THEN [metadata |-> null, metadataStreamVersion |-> -1, maxAge |-> null,
        maxCount |-> null]
  ELSE LET metadataMessage == DataOf(result.messages[1].messageId)
       IN [metadata |-> metadataMessage.metadata,
           metadataStreamVersion |-> result.streamVersion,
           maxAge |-> OrElse(metadataMessage.maxAge, null),
           maxCount |-> OrElse(metadataMessage.maxCount, null)]

\* readAll that returns the page of its first raw read whatever is in it
ReadAll_NoDetection(r, fromPositionInclusive, count, forward) ==
  /\ rd[r].pc = "idle"
  /\ count > 0
  /\ ~poolEnded
  /\ LET page == readAllInternal(fromPositionInclusive, count, forward)
     IN rd' = [rd EXCEPT ![r] =
                 [NoRead EXCEPT !.pc = "done",
                                !.all = TRUE, !.from = fromPositionInclusive,
                                !.count = count, !.forward = forward,
                                !.table = message, !.pages = <<page>>,
                                !.result = page]]
  /\ UNCHANGED <<storeVars, callVars, lifeVars, subVars, restVars>>

\* readAll up to the answer of its query: backward the page of
\* readAllInternal, forward the first page detectGapsAndReloadAll reads,
\* which it returns unless it is full and has a gap
ReadAll(r, fromPositionInclusive, count, forward) ==
  /\ rd[r].pc = "idle"
  /\ count > 0
  /\ ~poolEnded
  /\ LET page == readAllInternal(fromPositionInclusive, count, forward)
     IN rd' = [rd EXCEPT ![r] =
                 [NoRead EXCEPT !.pc = IF forward /\ HasGap(page, count)
                                          /\ gapReloadTimes > 0
                                       THEN "gap" ELSE "done",
                                !.all = TRUE, !.from = fromPositionInclusive,
                                !.count = count, !.forward = forward,
                                !.table = message, !.pages = <<page>>,
                                !.result = page]]
  /\ UNCHANGED <<storeVars, callVars, lifeVars, subVars, restVars>>

\* detectGapsAndReloadAll after gapReloadDelay: the page is read again, and
\* returned when the gap is gone or no reload is left
ReadAllReload(r) ==
  /\ rd[r].pc = "gap"
  /\ ~poolEnded
  /\ LET page == readAllInternal(rd[r].from, rd[r].count, TRUE)
         reloads == rd[r].reloads + 1
     IN rd' = [rd EXCEPT ![r].pc = IF HasGap(page, rd[r].count)
                                      /\ reloads < gapReloadTimes
                                   THEN "gap" ELSE "done",
                         ![r].reloads = reloads,
                         ![r].table = message,
                         ![r].pages = Append(@, page),
                         ![r].result = page]
  /\ UNCHANGED <<storeVars, callVars, lifeVars, subVars, restVars>>

\* ---------------------------------------------------------- subscriptions
\* the driver's default page size
maxCountPerRead == 100

\* an option the caller has not given
NotGiven == -2

\* subscriptionOptions: afterVersion or afterPosition, whether the caller
\* gave an onEstablished callback, and maxCountPerRead
SubscriptionOptions(after, onEstablished, count) ==
  [after |-> after, onEstablished |-> onEstablished, maxCountPerRead |-> count]

\* state: where the driver is; next: the version or position to read from;
\* page: the messages of the page read that are still to be processed;
\* running: the processMessage calls that have not resolved; delivered: the
\* versions or positions passed to processMessage so far; established: the
\* calls the driver made of the onEstablished it was given; callbacks: the
\* calls made of the caller's onEstablished
NoSub == [state |-> "none", streamId |-> "", next |-> 0, page |-> <<>>,
          isEnd |-> FALSE, tracked |-> FALSE, late |-> FALSE,
          all |-> FALSE, count |-> 0, start |-> NotGiven, reloads |-> 0,
          running |-> 0, delivered |-> <<>>,
          onEstablished |-> FALSE, established |-> 0, callbacks |-> 0]

\* the driver calls processMessage: noted when dispose() has returned
Invoked(s) ==
  afterReturn' = IF dpc = "returned" THEN afterReturn \cup {s} ELSE afterReturn

\* what subscribeToStream and subscribeToAll pass to the driver: the
\* caller's options with onEstablished and dispose replaced by the store's
\* own, which resolve the promise the caller waits for.  The driver starts
\* after the version or position given, or has to look for the head first.
createSubscription(all, streamId, subscriptionOptions) ==
  LET given == subscriptionOptions.after # NotGiven
  IN [NoSub EXCEPT !.state = IF given THEN "reading" ELSE "initializing",
                   !.all = all,
                   !.streamId = streamId,
                   !.next = IF given THEN subscriptionOptions.after + 1 ELSE 0,
                   !.start = IF given THEN subscriptionOptions.after + 1 ELSE NotGiven,
                   !.count = subscriptionOptions.maxCountPerRead,
                   !.onEstablished = subscriptionOptions.onEstablished,
                   !.established = IF given THEN 1 ELSE 0,
                   !.tracked = TRUE,
                   !.late = disposing]

\* subscribeToStream with the options of the caller: the subscription is
\* created on the store's notifier (made on first use) and pushed on the
\* store's list
SubscribeToStreamWith(s, streamId, subscriptionOptions) ==
  /\ sub[s].state = "none"
  /\ sub' = [sub EXCEPT ![s] = createSubscription(FALSE, streamId, subscriptionOptions)]
  /\ notifier' = IF notifier = "none" THEN "on" ELSE notifier
  /\ subscriptions' = Append(subscriptions, s)
  /\ UNCHANGED <<storeVars, callVars, readVars, payload, again, lifeVars, afterReturn>>

\* subscribeToStream: the driver resolves where to start and calls
\* onEstablished
SubscribeToStream(s, streamId, afterVersion) ==
  SubscribeToStreamWith(s, streamId,
                        SubscriptionOptions(afterVersion, FALSE, maxCountPerRead))

\* subscribeToAll
SubscribeToAll(s, subscriptionOptions) ==
  /\ sub[s].state = "none"
  /\ sub' = [sub EXCEPT ![s] = createSubscription(TRUE, "", subscriptionOptions)]
  /\ notifier' = IF notifier = "none" THEN "on" ELSE notifier
  /\ subscriptions' = Append(subscriptions, s)
  /\ UNCHANGED <<storeVars, callVars, readVars, payload, again, lifeVars, afterReturn>>

\* the driver without afterVersion or afterPosition: it starts after the
\* head of the stream, or of the store, and then calls onEstablished
SubEstablish(s) ==
  /\ sub[s].state = "initializing"
  /\ ~poolEnded
  /\ LET head == IF sub[s].all
                 THEN readAllInternal(PositionEnd, 1, FALSE)
                 ELSE ReadStream(sub[s].streamId, PositionEnd, 1, FALSE)
         next == IF sub[s].all
                 THEN IF head.messages = <<>> THEN 0 ELSE head.messages[1].position + 1
                 ELSE head.streamVersion + 1
     IN sub' = [sub EXCEPT ![s].state = "reading", ![s].next = next,
                           ![s].start = next, ![s].established = @ + 1]
  /\ UNCHANGED <<storeVars, callVars, readVars, restVars, lifeVars, notifier, afterReturn>>

\* the driver with a page: it calls processMessage for the first message,
\* or, with nothing to process, waits for a tick when the page was the last
Delivering(r, page, isEnd) ==
  IF page = <<>>
  THEN [r EXCEPT !.state = IF isEnd THEN "live" ELSE "reading"]
  ELSE [r EXCEPT !.state = "processing", !.page = page, !.isEnd = isEnd,
                 !.running = @ + 1, !.delivered = Append(@, Head(page))]

\* the driver catching up: one readStream from the next version on; it calls
\* processMessage for the first message of the page, or waits for a tick when
\* there is nothing more to read
SubRead(s) ==
  /\ sub[s].state = "reading"
  /\ ~sub[s].all
  /\ ~poolEnded
  /\ LET page == ReadStream(sub[s].streamId, sub[s].next, sub[s].count, TRUE)
         versions == [i \in DOMAIN page.messages |-> page.messages[i].streamVersion]
     IN /\ sub' = [sub EXCEPT ![s] = Delivering(sub[s], versions, page.isEnd)]
        /\ IF versions = <<>> THEN afterReturn' = afterReturn ELSE Invoked(s)
  /\ UNCHANGED <<storeVars, callVars, readVars, restVars, lifeVars, notifier>>

\* the all-subscription catching up: one forward readAll from the next
\* position on, up to the answer of its first raw read; a full page with a
\* gap is read again after gapReloadDelay
SubReadAll(s) ==
  /\ sub[s].state = "reading"
  /\ sub[s].all
  /\ ~poolEnded
  /\ LET page == readAllInternal(sub[s].next, sub[s].count, TRUE)
         positions == [i \in DOMAIN page.messages |-> page.messages[i].position]
     IN IF HasGap(page, sub[s].count) /\ gapReloadTimes > 0
        THEN /\ sub' = [sub EXCEPT ![s].state = "gap", ![s].reloads = 0]
             /\ afterReturn' = afterReturn
        ELSE /\ sub' = [sub EXCEPT ![s] = Delivering(sub[s], positions, page.isEnd)]
             /\ IF positions = <<>> THEN afterReturn' = afterReturn ELSE Invoked(s)
  /\ UNCHANGED <<storeVars, callVars, readVars, restVars, lifeVars, notifier>>

\* the all-subscription's readAll after gapReloadDelay: the page read again
\* goes to the driver when the gap is gone or no reload is left
SubReloadAll(s) ==
  /\ sub[s].state = "gap"
  /\ ~poolEnded
  /\ LET page == readAllInternal(sub[s].next, sub[s].count, TRUE)
         positions == [i \in DOMAIN page.messages |-> page.messages[i].position]
         reloads == sub[s].reloads + 1
     IN IF HasGap(page, sub[s].count) /\ reloads < gapReloadTimes
        THEN /\ sub' = [sub EXCEPT ![s].reloads = reloads]
             /\ afterReturn' = afterReturn
        ELSE /\ sub' = [sub EXCEPT ![s] = Delivering(sub[s], positions, page.isEnd)]
             /\ IF positions = <<>> THEN afterReturn' = afterReturn ELSE Invoked(s)
  /\ UNCHANGED <<storeVars, callVars, readVars, restVars, lifeVars, notifier>>

\* processMessage has resolved: the driver advances; a driver that is being
\* disposed stops here and calls the dispose callback, the others call
\* processMessage for the next message of the page or go on after the page
SubProcessed(s) ==
  /\ sub[s].state \in {"processing", "stopping"}
  /\ LET r == [sub[s] EXCEPT !.running = @ - 1]
         rest == Tail(r.page)
         next == Head(r.page) + 1
     IN IF r.state = "stopping"
        THEN /\ sub' = [sub EXCEPT ![s] = [r EXCEPT !.state = "disposed",
                                                    !.tracked = FALSE,
                                                    !.page = <<>>, !.next = next]]
             /\ subscriptions' = disposeCallback(subscriptions, s)
             /\ afterReturn' = afterReturn
        ELSE /\ sub' = [sub EXCEPT ![s] =
                          Delivering([r EXCEPT !.page = <<>>, !.next = next],
                                     rest, r.isEnd)]
             /\ subscriptions' = subscriptions
             /\ IF rest # <<>> THEN Invoked(s) ELSE afterReturn' = afterReturn
  /\ UNCHANGED <<storeVars, callVars, readVars, payload, again, lifeVars, notifier>>

\* the drivers with the flag of each set to whether it is on the list
Registered(drivers, array) ==
  [s \in DOMAIN drivers |-> [drivers[s] EXCEPT !.tracked = s \in Range(array)]]

\* subscription.dispose() called by the caller: the driver's waits are
\* cancelled, a processMessage that runs is awaited, then the dispose
\* callback the store gave it is called, also when the subscription has been
\* disposed before
SubscriptionDispose(s) ==
  /\ sub[s].state \notin {"none", "stopping"}
  /\ subscriptions' = IF sub[s].state = "processing"
                      THEN subscriptions
                      ELSE disposeCallback(subscriptions, s)
  /\ sub' = Registered([sub EXCEPT ![s] = disposeSubscription(sub[s])], subscriptions')
  /\ UNCHANGED <<storeVars, callVars, readVars, payload, again, lifeVars, notifier,
                 afterReturn>>

\* a driver that takes a tick as well while processMessage runs
SubTick_WhileProcessing(s) ==
  /\ sub[s].state \in {"live", "processing"}
  /\ notifier = "on"
  /\ sub' = [sub EXCEPT ![s].state = "reading"]
  /\ UNCHANGED <<storeVars, callVars, readVars, restVars, lifeVars, notifier, afterReturn>>

\* a tick of the notifier reaches a driver that waits for one
SubTick(s) ==
  /\ sub[s].state = "live"
  /\ notifier = "on"
  /\ sub' = [sub EXCEPT ![s].state = "reading"]
  /\ UNCHANGED <<storeVars, callVars, readVars, restVars, lifeVars, notifier, afterReturn>>

\* ------------------------------------------------------------ the system
\* the inputs of the calls: every call has messageIds of its own, and one
\* batch that ends with a messageId of the first call
OwnBatches(c) == {<<2 * c - 1>>, <<2 * c - 1, 2 * c>>}
Batches(c) == OwnBatches(c) \cup (IF c = 1 THEN {} ELSE {<<2 * c, 1>>})
ExpectedVersions == {Any, Empty, 0}

\* calls are numbered in the order they are made
InOrder(c) == \A d \in Calls : d < c => pc[d] # "idle"

InitStore ==
  /\ stream = [s \in AllStreams |-> NoStream]
  /\ message = {}
  /\ seq = 0

InitCalls(n) ==
  /\ op = [c \in 1..n |-> "none"]
  /\ arg = [c \in 1..n |-> NoArg]
  /\ pc = [c \in 1..n |-> "idle"]
  /\ attempt = [c \in 1..n |-> 0]
  /\ txn = [c \in 1..n |-> NoTxn]
  /\ out = [c \in 1..n |-> Pending]
  /\ entered = [c \in 1..n |-> 0]
  /\ exited = [c \in 1..n |-> 0]
  /\ atCall = [c \in 1..n |-> [disposing |-> FALSE, known |-> {}]]

InitSubs(n) ==
  /\ sub = [s \in 1..n |-> NoSub]
  /\ notifier = "none"
  /\ afterReturn = {}

\* the reads of a behaviour, none of them made yet
InitReads(n) == rd = [r \in 1..n |-> NoRead]

InitLife ==
  /\ disposing = FALSE
  /\ latchCount = 0
  /\ waitingFor = {}
  /\ dpc = "idle"
  /\ poolEnded = FALSE
  /\ payload = {}
  /\ again = NoAgain
  /\ subscriptions = <<>>

Init == InitStore /\ InitCalls(MaxCalls) /\ InitLife /\ InitSubs(0) /\ InitReads(0)

CallAppend ==
  \E c \in Calls :
     /\ InOrder(c)
     /\ \/ \E s \in UserStreams, e \in ExpectedVersions, b \in Batches(c) :
             AppendToStream(c, s, e, b)
        \/ AppendToStream(c, "$lol", Any, <<2 * c - 1>>)
CallSetStreamMetadata ==
  \E c \in Calls, s \in UserStreams, e \in {Any, Empty} :
     InOrder(c) /\ SetStreamMetadata(c, s, e)
CallDeleteStream ==
  \E c \in Calls, s \in UserStreams, e \in {Any, 0} :
     InOrder(c) /\ DeleteStream(c, s, e)
CallDeleteMessage ==
  \E c \in Calls, s \in UserStreams, m \in {1} :
     InOrder(c) /\ DeleteMessage(c, s, m)

Storage ==
  \/ \E c \in Calls : TxRead(c)
  \/ \E c \in Calls : TxInsert(c)
  \/ \E c \in Calls : TxCommit(c)
  \/ \E c \in Calls : TxDeleteMessages(c)
  \/ \E c \in Calls : TxFault(c)

Settle ==
  \/ \E c \in Calls : AppendSettle(c)
  \/ \E c \in Calls : SetMetadataSettle(c)
  \/ \E c \in Calls : DeleteStreamSettle(c)
  \/ \E c \in Calls : DeleteMessagesSettle(c)

\* the write operations of the store, called with any of the inputs, by
\* MaxCalls calls that overlap in every way, on a driver that does not fail
Next ==
  \/ CallAppend
  \/ CallSetStreamMetadata
  \/ CallDeleteStream
  \/ CallDeleteMessage
  \/ \E c \in Calls : TxRead(c)
  \/ \E c \in Calls : TxInsert(c)
  \/ \E c \in Calls : TxCommit(c)
  \/ \E c \in Calls : TxDeleteMessages(c)
  \/ Settle

Spec == Init /\ [][Next]_vars

\* ---------------------------------------------- the store and its disposal
\* the write operations and dispose(), called in every order
LifeAppend ==
  \E c \in Calls, e \in {Any, Empty} :
     \E b \in {<<2 * c - 1>>, <<2 * c, 1>>} :
        InOrder(c) /\ AppendToStream(c, "s1", e, b)
LifeSetStreamMetadata == \E c \in Calls : InOrder(c) /\ SetStreamMetadata(c, "s1", Any)
LifeDeleteStream == \E c \in Calls : InOrder(c) /\ DeleteStream(c, "s1", Any)
LifeDeleteMessage == \E c \in Calls : InOrder(c) /\ DeleteMessage(c, "s1", 1)

NextLife ==
  \/ LifeAppend
  \/ LifeSetStreamMetadata
  \/ LifeDeleteStream
  \/ LifeDeleteMessage
  \/ Storage
  \/ Settle
  \/ Dispose
  \/ DisposeReturn

SpecLife == Init /\ [][NextLife]_vars

\* ------------------------------------------------ appends that race
\* the messages a stream holds before the race
BaseId(i) == 50 + i
BaseRows(n) == {[pos |-> i - 1, id |-> BaseId(i), stream |-> "s1", ver |-> i - 1] :
                  i \in 1..n}

\* a store whose stream s1 holds 0 (no stream) to MaxBase messages
InitRace ==
  /\ \E n \in 0..MaxBase :
        /\ stream = [s \in AllStreams |->
                       IF s = "s1" /\ n > 0
                       THEN [exists |-> TRUE, version |-> n - 1, position |-> n - 1]
                       ELSE NoStream]
        /\ message = BaseRows(n)
        /\ seq = n
  /\ InitCalls(RaceCalls)
  /\ InitLife
  /\ InitSubs(0) /\ InitReads(0)

\* the stream's version before the race: Empty (-1) when there was no stream
BaseVersion == Cardinality({m \in message : m.id > BaseId(0)}) - 1

\* appendToStream of an own batch, each call with the version the stream had
\* before the first of them
RaceAppend ==
  \E c \in Calls :
     \E b \in OwnBatches(c) :
        InOrder(c) /\ AppendToStream(c, "s1", BaseVersion, b)

NextRace ==
  \/ RaceAppend
  \/ \E c \in Calls : TxRead(c)
  \/ \E c \in Calls : TxInsert(c)
  \/ \E c \in Calls : TxCommit(c)
  \/ \E c \in Calls : AppendSettle(c)

SpecRace == InitRace /\ [][NextRace]_vars

\* -------------------------------------------------- appends with Any
InitAny == InitStore /\ InitCalls(AnyCalls) /\ InitLife /\ InitSubs(0) /\ InitReads(0)

\* the messageId of the message another caller appends at a position
OtherId(position) == 1000 + position

\* The callers are followed step by step, up to AnyCalls of them, or, when
\* there are more, call 1 is and each other caller is taken as one step.
AnyAppend ==
  \E c \in Calls :
     \E b \in OwnBatches(c) :
        /\ InOrder(c)
        /\ c > 1 => \A m \in message : m.id < OtherId(0)
        /\ AppendToStream(c, "s1", Any, b)

\* appendToStream(s1, Any, [one message with an id of its own]) by one more
\* caller, its transaction taken as one step; these callers are the ones
\* whose commit lands between call 1's read of the version and its insert
OtherAppend ==
  /\ op[1] = "append"
  /\ pc[1] = "insert"
  /\ ~VersionTaken(1)
  /\ \A c \in Calls \ {1} : pc[c] = "idle"
  /\ LET version == stream["s1"].version + 1
     IN /\ message' = message \cup {[pos |-> seq, id |-> OtherId(seq), stream |-> "s1",
                                     ver |-> version]}
        /\ stream' = [stream EXCEPT !["s1"] = [exists |-> TRUE, version |-> version,
                                               position |-> seq]]
        /\ seq' = seq + 1
  /\ UNCHANGED <<callVars, lifeVars, subVars, readVars, restVars>>

NextAny ==
  \/ AnyAppend
  \/ OtherAppend
  \/ \E c \in Calls : TxRead(c)
  \/ \E c \in Calls : TxInsert(c)
  \/ \E c \in Calls : TxCommit(c)
  \/ \E c \in Calls : AppendSettle(c)

SpecAny == InitAny /\ [][NextAny]_vars

\* ------------------------------------------- the store with subscriptions
\* appends with Any, subscriptions to the stream from its start or from after
\* its first message, and dispose(), in every order
InitSub == InitStore /\ InitCalls(SubCalls) /\ InitLife /\ InitSubs(MaxSubs) /\ InitReads(0)

SubAppend ==
  \E c \in Calls : InOrder(c) /\ AppendToStream(c, "s1", Any, <<2 * c - 1, 2 * c>>)
Subscribe ==
  \E s \in Subs, afterVersion \in {-1, 0} :
     /\ \A r \in Subs : r < s => sub[r].state # "none"
     /\ dpc # "returned"
     /\ SubscribeToStream(s, "s1", afterVersion)
\* the first subscription may be one that starts at the head of the stream
\* and whose caller passes an onEstablished callback
SubscribeAtHead ==
  /\ dpc # "returned"
  /\ SubscribeToStreamWith(1, "s1", SubscriptionOptions(NotGiven, TRUE, maxCountPerRead))

NextSub ==
  \/ SubAppend
  \/ \E c \in Calls : TxRead(c)
  \/ \E c \in Calls : TxInsert(c)
  \/ \E c \in Calls : TxCommit(c)
  \/ \E c \in Calls : AppendSettle(c)
  \/ Subscribe
  \/ SubscribeAtHead
  \/ \E s \in Subs : SubEstablish(s)
  \/ \E s \in Subs : SubRead(s)
  \/ \E s \in Subs : SubProcessed(s)
  \/ \E s \in Subs : SubTick(s)
  \/ Dispose
  \/ DisposeSubscriptionsDone
  \/ DisposeReturn

SpecSub == InitSub /\ [][NextSub]_vars

\* ------------------------------------------------ reads among the writes
Reads == DOMAIN rd
\* no write operation is under way
Quiet == \A c \in Calls : pc[c] \in {"idle", "done"}

\* a store whose stream s1 holds 0 (no stream) to MaxBase messages, write
\* operations made one after the other, and one read made at any time (a
\* read changes nothing, so one read is as good as many)
InitRead ==
  /\ \E n \in 0..MaxBase :
        /\ stream = [s \in AllStreams |->
                       IF s = "s1" /\ n > 0
                       THEN [exists |-> TRUE, version |-> n - 1, position |-> n - 1]
                       ELSE NoStream]
        /\ message = BaseRows(n)
        /\ seq = n
  /\ InitCalls(ReadCalls)
  /\ InitLife
  /\ InitSubs(0)
  /\ InitReads(1)

ReadAppend ==
  \E c \in Calls :
     \E b \in OwnBatches(c) : InOrder(c) /\ Quiet /\ AppendToStream(c, "s1", Any, b)
ReadDeleteStream == \E c \in Calls : InOrder(c) /\ Quiet /\ DeleteStream(c, "s1", Any)
ReadDeleteMessage ==
  \E c \in Calls, i \in 1..MaxBase :
     InOrder(c) /\ Quiet /\ DeleteMessage(c, "s1", BaseId(i))

\* the inputs of the reads
FromVersions == {0, 1, PositionEnd}
FromPositions == {0, 2, PositionEnd}
Counts == {1, 2}

CallReadStream ==
  \E r \in Reads, from \in FromVersions, count \in Counts, forward \in BOOLEAN :
     ReadStreamMessages(r, "s1", from, count, forward)
CallReadAll ==
  \E r \in Reads, from \in FromPositions, count \in Counts, forward \in BOOLEAN :
     ReadAll(r, from, count, forward)

NextRead ==
  \/ ReadAppend
  \/ ReadDeleteStream
  \/ ReadDeleteMessage
  \/ \E c \in Calls : TxRead(c)
  \/ \E c \in Calls : TxInsert(c)
  \/ \E c \in Calls : TxCommit(c)
  \/ \E c \in Calls : TxDeleteMessages(c)
  \/ \E c \in Calls : AppendSettle(c)
  \/ \E c \in Calls : DeleteStreamSettle(c)
  \/ \E c \in Calls : DeleteMessagesSettle(c)
  \/ CallReadStream
  \/ \E r \in Reads : ReadStreamInfo(r)
  \/ CallReadAll
  \/ \E r \in Reads : ReadAllReload(r)

SpecRead == InitRead /\ [][NextRead]_vars

\* ---------------------------------------- readAll among concurrent writes
\* a store with MaxBase messages in s1; an appendToStream and a
\* setStreamMetadata whose transactions run side by side, so that the later
\* position may be committed first; one readAll made at any time
InitGap ==
  /\ stream = [s \in AllStreams |->
                 IF s = "s1"
                 THEN [exists |-> TRUE, version |-> MaxBase - 1, position |-> MaxBase - 1]
                 ELSE NoStream]
  /\ message = BaseRows(MaxBase)
  /\ seq = MaxBase
  /\ InitCalls(GapCalls)
  /\ InitLife
  /\ InitSubs(0)
  /\ InitReads(1)

GapAppend ==
  \E c \in Calls : c % 2 = 1 /\ InOrder(c) /\ AppendToStream(c, "s1", Any, <<2 * c - 1>>)
GapSetStreamMetadata ==
  \E c \in Calls : c % 2 = 0 /\ InOrder(c) /\ SetStreamMetadata(c, "s1", Any)
GapReadAll ==
  \E r \in Reads, from \in {MaxBase - 1, PositionEnd}, count \in {2, 3},
     forward \in BOOLEAN :
        ReadAll(r, from, count, forward)

NextGap ==
  \/ GapAppend
  \/ GapSetStreamMetadata
  \/ \E c \in Calls : TxRead(c)
  \/ \E c \in Calls : TxInsert(c)
  \/ \E c \in Calls : TxCommit(c)
  \/ \E c \in Calls : AppendSettle(c)
  \/ \E c \in Calls : SetMetadataSettle(c)
  \/ GapReadAll
  \/ \E r \in Reads : ReadAllReload(r)

SpecGap == InitGap /\ [][NextGap]_vars

\* ------------------------------- an all-subscription among concurrent writes
\* the same store and writes, and one subscribeToAll: after the position
\* given, or from the head on; with a page size of 2 or the default
InitAll ==
  /\ stream = [s \in AllStreams |->
                 IF s = "s1"
                 THEN [exists |-> TRUE, version |-> MaxBase - 1, position |-> MaxBase - 1]
                 ELSE NoStream]
  /\ message = BaseRows(MaxBase)
  /\ seq = MaxBase
  /\ InitCalls(AllCalls)
  /\ InitLife
  /\ InitSubs(1)
  /\ InitReads(0)

SubscribeAll ==
  \E s \in Subs, afterPosition \in {-1, MaxBase - 2, NotGiven},
     count \in {2, maxCountPerRead} :
        SubscribeToAll(s, SubscriptionOptions(afterPosition, FALSE, count))

NextAll ==
  \/ GapAppend
  \/ GapSetStreamMetadata
  \/ \E c \in Calls : TxRead(c)
  \/ \E c \in Calls : TxInsert(c)
  \/ \E c \in Calls : TxCommit(c)
  \/ \E c \in Calls : AppendSettle(c)
  \/ \E c \in Calls : SetMetadataSettle(c)
  \/ SubscribeAll
  \/ \E s \in Subs : SubEstablish(s)
  \/ \E s \in Subs : SubReadAll(s)
  \/ \E s \in Subs : SubReloadAll(s)
  \/ \E s \in Subs : SubProcessed(s)
  \/ \E s \in Subs : SubTick(s)

SpecAll == InitAll /\ [][NextAll]_vars

\* the steps of a write operation that was called
WriteStep ==
  \E c \in Calls : \/ TxRead(c) \/ TxInsert(c) \/ TxCommit(c)
                   \/ AppendSettle(c) \/ SetMetadataSettle(c)
\* the steps of the driver, of which a subscription can take one at a time:
\* its reads, the end of the delay, processMessage resolving, a tick
DriverStep ==
  \E s \in Subs : \/ SubEstablish(s) \/ SubReadAll(s) \/ SubReloadAll(s)
                  \/ SubProcessed(s) \/ SubTick(s)

\* every step that can be taken is taken in the end: the write operations
\* (finitely many) run to their end, and the driver goes on
SpecAllFair == SpecAll /\ WF_vars(WriteStep) /\ WF_vars(DriverStep)

\* --------------------------------------- a stream subscription among appends
\* one subscribeToStream, from a version given or from the head on, with a
\* page size of 1 or the default, and appends that run side by side with it
InitOrder == InitStore /\ InitCalls(OrderCalls) /\ InitLife /\ InitSubs(1) /\ InitReads(0)

OrderAppend ==
  \E c \in Calls : InOrder(c) /\ AppendToStream(c, "s1", Any, <<2 * c - 1, 2 * c>>)
OrderSubscribe ==
  \E s \in Subs, afterVersion \in {-1, 0, NotGiven}, count \in {1, maxCountPerRead} :
     SubscribeToStreamWith(s, "s1", SubscriptionOptions(afterVersion, FALSE, count))

NextOrder ==
  \/ OrderAppend
  \/ \E c \in Calls : TxRead(c)
  \/ \E c \in Calls : TxInsert(c)
  \/ \E c \in Calls : TxCommit(c)
  \/ \E c \in Calls : AppendSettle(c)
  \/ OrderSubscribe
  \/ \E s \in Subs : SubEstablish(s)
  \/ \E s \in Subs : SubRead(s)
  \/ \E s \in Subs : SubProcessed(s)
  \/ \E s \in Subs : SubTick(s)

SpecOrder == InitOrder /\ [][NextOrder]_vars

\* ------------------------------------------------------ stream metadata
\* setStreamMetadata calls made one after the other on an empty store, with
\* options of three kinds, and one getStreamMetadata between or after them
MetadataOptions ==
  {SetStreamMetadataOptions(JsObject("m1"), undefined, undefined),
   SetStreamMetadataOptions(JsObject("m2"), JsNumber(5), JsNumber(7)),
   SetStreamMetadataOptions(JsObject("m1"), JsNumber(0), JsNumber(7))}

InitMeta == InitStore /\ InitCalls(MetaCalls) /\ InitLife /\ InitSubs(0) /\ InitReads(1)

MetaSet ==
  \E c \in Calls, e \in ExpectedVersions, opts \in MetadataOptions :
     /\ InOrder(c) /\ Quiet
     /\ \A r \in Reads : rd[r].pc # "info"
     /\ SetStreamMetadataWith(c, "s1", e, opts)
MetaGet == \E r \in Reads : Quiet /\ GetStreamMetadata(r, "s1")

NextMeta ==
  \/ MetaSet
  \/ \E c \in Calls : TxRead(c)
  \/ \E c \in Calls : TxInsert(c)
  \/ \E c \in Calls : TxCommit(c)
  \/ \E c \in Calls : SetMetadataSettle(c)
  \/ MetaGet
  \/ \E r \in Reads : ReadStreamInfo(r)

SpecMeta == InitMeta /\ [][NextMeta]_vars

\* setStreamMetadata and getStreamMetadata called at any time: a call may
\* commit between the two queries of the read
MetaRaceSet ==
  \E c \in Calls, opts \in MetadataOptions :
     InOrder(c) /\ SetStreamMetadataWith(c, "s1", Any, opts)
MetaRaceGet == \E r \in Reads : GetStreamMetadata(r, "s1")

NextMetaRace ==
  \/ MetaRaceSet
  \/ \E c \in Calls : TxRead(c)
  \/ \E c \in Calls : TxInsert(c)
  \/ \E c \in Calls : TxCommit(c)
  \/ \E c \in Calls : SetMetadataSettle(c)
  \/ MetaRaceGet
  \/ \E r \in Reads : ReadStreamInfo(r)

SpecMetaRace == InitMeta /\ [][NextMetaRace]_vars

\* the same, and dispose() called a second time
NextTwice ==
  \/ NextSub
  \/ DisposeAgain
  \/ DisposeAgainWrites
  \/ DisposeAgainReturn

SpecTwice == InitSub /\ [][NextTwice]_vars

\* ------------------------------------- calls with arguments of every kind
\* the stream ids a caller may pass: none, a value that is no string, the
\* empty string, an id that starts with "$", an id of the caller's own
StreamIdsGiven == {undefined, JsFalse, JsString(""), JsString("$lol"), JsString("s1")}
ExpectedVersionsGiven == {undefined, JsNumber(Any), JsNumber(Empty)}
\* a message as it should be, and batches with one field missing or wrong
GoodMessage(n) == NewMessage(Uuid(n), JsString("greeting"), JsString("{}"))
MessagesGiven(c) ==
  {<<GoodMessage(2 * c - 1)>>,
   <<GoodMessage(2 * c - 1), NewMessage(undefined, JsString("greeting"), JsString("{}"))>>,
   <<NewMessage(JsString("not-a-uuid"), JsString("greeting"), JsString("{}"))>>,
   <<NewMessage(Uuid(2 * c - 1), undefined, JsString("{}"))>>,
   <<GoodMessage(2 * c - 1), NewMessage(Uuid(2 * c), JsString("greeting"), undefined)>>}

InitGiven == InitStore /\ InitCalls(GivenCalls) /\ InitLife /\ InitSubs(0) /\ InitReads(0)

\* the calls drawn: the valid ones, those with one argument wrong, and one
\* with every argument wrong
ArgumentsGiven(c) ==
  LET good == <<GoodMessage(2 * c - 1)>>
  IN {<<s, JsNumber(Any), good>> : s \in StreamIdsGiven}
       \cup {<<JsString("s1"), e, good>> : e \in ExpectedVersionsGiven}
       \cup {<<JsString("s1"), JsNumber(Any), ms>> : ms \in MessagesGiven(c)}
       \cup {<<JsString("$lol"), undefined,
               <<NewMessage(undefined, undefined, undefined)>>>>}

GivenAppend ==
  \E c \in Calls :
     \E g \in ArgumentsGiven(c) : InOrder(c) /\ AppendToStreamWith(c, g[1], g[2], g[3])

\* appendToStream called with valid and invalid arguments, while the store
\* is in use and while it is being disposed
NextGiven ==
  \/ GivenAppend
  \/ \E c \in Calls : TxRead(c)
  \/ \E c \in Calls : TxInsert(c)
  \/ \E c \in Calls : TxCommit(c)
  \/ \E c \in Calls : AppendSettle(c)
  \/ Dispose
  \/ DisposeReturn

SpecGiven == InitGiven /\ [][NextGiven]_vars

\* numbers that are neither a version nor Any nor Empty
OtherNumbers == {-3, ConcurrencyIssue}

InitArgs == InitStore /\ InitCalls(ArgCalls) /\ InitLife /\ InitSubs(0) /\ InitReads(0)

ArgsAppend ==
  \E c \in Calls, e \in OtherNumbers \cup {Any} :
     InOrder(c) /\ AppendToStream(c, "s1", e, <<2 * c - 1>>)
ArgsSetStreamMetadata ==
  \E c \in Calls, s \in {"s1", "$lol"} : InOrder(c) /\ SetStreamMetadata(c, s, Any)
ArgsDeleteStream ==
  \E c \in Calls, s \in {"s1", "$lol"} : InOrder(c) /\ DeleteStream(c, s, Any)
ArgsDeleteMessage ==
  \E c \in Calls, s \in MetaStreams \cup {DeletedStream}, d \in Calls :
     InOrder(c) /\ DeleteMessage(c, s, v4(d))

\* the write operations called with stream ids that start with "$" and
\* with expected versions that are no version
NextArgs ==
  \/ ArgsAppend
  \/ ArgsSetStreamMetadata
  \/ ArgsDeleteStream
  \/ ArgsDeleteMessage
  \/ \E c \in Calls : TxRead(c)
  \/ \E c \in Calls : TxInsert(c)
  \/ \E c \in Calls : TxCommit(c)
  \/ \E c \in Calls : TxDeleteMessages(c)
  \/ \E c \in Calls : AppendSettle(c)
  \/ \E c \in Calls : SetMetadataSettle(c)
  \/ \E c \in Calls : DeleteStreamSettle(c)
  \/ \E c \in Calls : DeleteMessagesSettle(c)

SpecArgs == InitArgs /\ [][NextArgs]_vars

\* ------------------------------------- a driver that answers with the sentinel
InitSentinel ==
  InitStore /\ InitCalls(SentinelCalls) /\ InitLife /\ InitSubs(0) /\ InitReads(0)

\* The append procedure signalling a conflict in the other of its two ways:
\* the version it read was taken by a transaction that committed since, and it
\* returns current_version = -9 instead of running into the unique key.
TxSentinel(c) ==
  /\ pc[c] = "insert"
  /\ op[c] \in Inserting
  /\ ~Blocked(c)
  /\ VersionTaken(c)
  /\ txn' = [txn EXCEPT ![c].version = ConcurrencyIssue]
  /\ pc' = [pc EXCEPT ![c] = "settle"]
  /\ UNCHANGED <<storeVars, op, arg, attempt, out, atCall, entered, exited, lifeVars,
                 subVars, readVars, restVars>>

SentinelAppend ==
  \E c \in Calls, e \in ExpectedVersions :
     InOrder(c) /\ AppendToStream(c, "s1", e, <<2 * c - 1>>)

\* appends that race on one stream, on a driver that signals the conflict
\* of the loser by the violation or by the sentinel
NextSentinel ==
  \/ SentinelAppend
  \/ \E c \in Calls : TxRead(c)
  \/ \E c \in Calls : TxInsert(c)
  \/ \E c \in Calls : TxSentinel(c)
  \/ \E c \in Calls : TxCommit(c)
  \/ \E c \in Calls : AppendSettle(c)

SpecSentinel == InitSentinel /\ [][NextSentinel]_vars

\* ------------------------------------------------- appends that fail
InitFail == InitStore /\ InitCalls(FailCalls) /\ InitLife /\ InitSubs(0) /\ InitReads(0)

\* appendToStream of one or two messages of the call's own, or of a message
\* of its own followed by a message of call 1
FailAppend ==
  \E c \in Calls, e \in ExpectedVersions :
     \E b \in Batches(c) :
        InOrder(c) /\ AppendToStream(c, "s1", e, b)

\* appends that overlap in every way, with every expected version, on a
\* driver that may fail
NextFail ==
  \/ FailAppend
  \/ \E c \in Calls : TxRead(c)
  \/ \E c \in Calls : TxInsert(c)
  \/ \E c \in Calls : TxCommit(c)
  \/ \E c \in Calls : TxFault(c)
  \/ \E c \in Calls : AppendSettle(c)

SpecFail == InitFail /\ [][NextFail]_vars

\* ------------------------------------------- the list of subscriptions
InitRegistry ==
  InitStore /\ InitCalls(0) /\ InitLife /\ InitSubs(RegistrySubs) /\ InitReads(0)

\* subscribeToStream and subscribeToAll, called before dispose()
RegistrySubscribe ==
  \E s \in Subs :
     /\ ~disposing
     /\ \/ SubscribeToStream(s, "s1", -1)
        \/ SubscribeToAll(s, SubscriptionOptions(-1, FALSE, maxCountPerRead))

\* subscriptions made on a store and disposed by their callers, any number
\* of times, and by the store's dispose()
NextRegistry ==
  \/ RegistrySubscribe
  \/ \E s \in Subs : SubRead(s)
  \/ \E s \in Subs : SubReadAll(s)
  \/ \E s \in Subs : SubscriptionDispose(s)
  \/ Dispose
  \/ DisposeReturn

SpecRegistry == InitRegistry /\ [][NextRegistry]_vars

\* ------------------------------------------------- properties of the writes
Done(c) == pc[c] = "done"
Ok(c) == Done(c) /\ out[c].status = "ok"
FailedWith(c, kind) == Done(c) /\ out[c].status = "err" /\ out[c].err.kind = kind

\* the streamVersions a reader gets reading the whole stream forward from 0
StreamVersions(s) ==
  LET page == ReadStream(s, 0, Cardinality(RowsOf(s)) + 1, TRUE)
  IN [i \in DOMAIN page.messages |-> page.messages[i].streamVersion]

Dense(versions) == versions = [i \in DOMAIN versions |-> i - 1]
Increasing(versions) ==
  \A i, j \in DOMAIN versions : i < j => versions[i] < versions[j]

\* a deleteMessage transaction has removed a row of the stream
DeletedFrom(s) ==
  \E c \in Calls : /\ op[c] = "deleteMessage"
                   /\ arg[c].stream = s
                   /\ pc[c] \in {"settle", "done"}
                   /\ txn[c].existed

\* C3, as the spec states it: after any sequence of appendToStream,
\* setStreamMetadata, deleteMessage and deleteStream calls a reader of a
\* stream sees every row of it, with the streamVersions 0, 1, .., N-1.
C3_Original ==
  \A s \in AllStreams :
     /\ Len(StreamVersions(s)) = Cardinality(RowsOf(s))
     /\ Dense(StreamVersions(s))

\* C3, amended: a reader of a stream sees every row of it with strictly
\* increasing streamVersions, no version twice; they are 0, 1, .., N-1 as
\* long as no deleteMessage has removed a row of the stream.
C3_Amended ==
  \A s \in AllStreams :
     /\ Len(StreamVersions(s)) = Cardinality(RowsOf(s))
     /\ Increasing(StreamVersions(s))
     /\ ~DeletedFrom(s) => Dense(StreamVersions(s))

\* two calls have written to s1, one of them after a retry, and a stream was
\* deleted: the reader sees two versions or more
C3_Witness ==
  /\ Len(StreamVersions("s1")) >= 2
  /\ ~DeletedFrom("s1")
  /\ \E c, d \in Calls : c # d /\ op[c] = "append" /\ Ok(c) /\ op[d] = "append" /\ Ok(d)

\* C4: no two rows of the message table have the same messageId, whatever
\* was appended, also by calls that append an id again and by retried calls.
C4_UniqueMessageIds ==
  \A m, n \in message : m.id = n.id => m = n

\* an append of an id that is in the store was rejected, after a retry
C4_Witness ==
  \E c \in Calls : /\ op[c] = "append"
                   /\ FailedWith(c, "DuplicateMessageError")
                   /\ out[c].err.id \in MessageIds
                   /\ attempt[c] >= 2

KnownAtCall(c) ==
  /\ op[c] = "append"
  /\ ValidAppend(arg[c].stream, arg[c].ev, arg[c].batch)
  /\ ~atCall[c].disposing
  /\ atCall[c].known # {}

\* C5, as the spec states it: an append whose batch holds a messageId that is
\* in the store when it is called fails with DuplicateMessageError carrying
\* that id, after exactly one storage attempt (storage faults aside).
C5_Original ==
  \A c \in Calls :
     (KnownAtCall(c) /\ Done(c) /\ out[c] # Failed(StorageFault))
       => /\ FailedWith(c, "DuplicateMessageError")
          /\ out[c].err.id \in atCall[c].known
          /\ attempt[c] = 1

\* C5, amended: an append attempt on which the store reports the duplicate
\* messageId ends the call with DuplicateMessageError carrying that id, an id
\* of the batch; the attempt is never retried, also with Any; a call fails
\* with DuplicateMessageError in no other way, and with an expectedVersion
\* other than Any after exactly one attempt.
C5_Amended ==
  \A c \in Calls : op[c] = "append" =>
     LET duplicate == isDuplicateMessageIdUniqueConstraintViolation(txn[c].ret)
     IN /\ (pc[c] = "settle" /\ duplicate)
             => ~retry(retryableAppendToStream(txn[c], arg[c].ev), attempt[c])
        /\ (Done(c) /\ entered[c] > 0)
             => (duplicate <=> FailedWith(c, "DuplicateMessageError"))
        /\ FailedWith(c, "DuplicateMessageError")
             => /\ out[c].err.id = txn[c].ret.id
                /\ out[c].err.id \in Range(arg[c].batch)
                /\ arg[c].ev # Any => attempt[c] = 1

\* an append with Any of an id that was in the store when it was called has
\* failed with DuplicateMessageError after one attempt
C5_Witness ==
  \E c \in Calls : /\ KnownAtCall(c)
                   /\ arg[c].ev = Any
                   /\ FailedWith(c, "DuplicateMessageError")
                   /\ out[c].err.id \in atCall[c].known
                   /\ attempt[c] = 1

\* ---------------------------------------------- properties of the disposal
Started(c) == pc[c] # "idle"
InProgress(c) == pc[c] \notin {"idle", "done"}

\* C7, as the spec states it: a write operation called when the disposing
\* flag is set fails with DisposedError, without entering the latch and
\* without an attempt on the storage.
C7_Original ==
  \A c \in Calls :
     (Started(c) /\ atCall[c].disposing)
       => /\ out[c] = Failed(DisposedError)
          /\ entered[c] = 0
          /\ attempt[c] = 0

\* C8: when the pool is ended, and so when dispose() has returned, every
\* appendToStream that has entered the latch has resolved; an appendToStream
\* called after dispose() fails with DisposedError and never enters.
C8_DisposeWaitsForAppends ==
  \A c \in Calls : op[c] = "append" =>
     /\ (entered[c] > 0 /\ (poolEnded \/ dpc \in {"ending", "returned"})) => Done(c)
     /\ (Started(c) /\ atCall[c].disposing)
          => (out[c] = Failed(DisposedError) /\ entered[c] = 0)
     /\ entered[c] > 0 => ~atCall[c].disposing

\* dispose() has waited for an append that was in the latch and has returned
\* after it succeeded, and an append called in between was refused
C8_Witness ==
  /\ dpc = "returned"
  /\ \E c \in waitingFor : op[c] = "append" /\ Ok(c)
  /\ \E d \in Calls : /\ op[d] = "append"
                      /\ atCall[d].disposing
                      /\ FailedWith(d, "DisposedError")

\* C9: an appendToStream enters the latch at most once, is in it while one of
\* its attempts runs, and has left it when it has resolved, however it ends;
\* the latch counts the sections that are in it, and counts none when no
\* write operation is in progress.
C9_LatchBalanced ==
  /\ latchCount = Cardinality(InLatch)
  /\ \A c \in Calls : op[c] = "append" =>
        /\ entered[c] <= 1
        /\ exited[c] <= entered[c]
        /\ InProgress(c) => (entered[c] = 1 /\ exited[c] = 0)
        /\ Done(c) => exited[c] = entered[c]
  /\ (\A c \in Calls : ~InProgress(c)) => latchCount = 0

\* an append that succeeded and one that failed have both left the latch
C9_Witness ==
  /\ latchCount = 0
  /\ \E c, d \in Calls :
        /\ op[c] = "append" /\ Ok(c) /\ exited[c] = 1
        /\ op[d] = "append" /\ FailedWith(d, "DuplicateMessageError") /\ exited[d] = 1

\* C10, as the spec states it: once dispose() has returned no subscription
\* calls processMessage any more and the pool is ended, whatever subscribe,
\* append and dispose calls were made before it returned.
C10_Original ==
  /\ afterReturn = {}
  /\ dpc = "returned" => poolEnded

\* what holds of the subscriptions made before dispose() was called: when
\* dispose() has returned each of them is disposed and off the store's list
C10_SubscribedBeforeDispose ==
  dpc = "returned" =>
     \A s \in Subs : (sub[s].state # "none" /\ ~sub[s].late)
                        => (sub[s].state = "disposed" /\ ~sub[s].tracked)

\* ------------------------------------------ properties of racing appends
StartedCalls == {c \in Calls : Started(c)}
Winners == {c \in Calls : Ok(c)}

\* the rows a call's batch makes on top of n messages
RowsOfBatch(c, n) ==
  {[id |-> arg[c].batch[i], stream |-> "s1", ver |-> n + i - 1] :
     i \in 1..Len(arg[c].batch)}
IdVer(rows) == {[id |-> m.id, stream |-> m.stream, ver |-> m.ver] : m \in rows}

\* C1: of two or more appends to a stream that all expect the version it had
\* before them (Empty when there was no stream) and have all resolved,
\* exactly one has succeeded and every other has failed with
\* ConcurrencyError; the stream holds what it held and, on top, the winner's
\* messages only.  At no time has more than one succeeded.
C1_OneWinner ==
  /\ Cardinality(Winners) <= 1
  /\ \A c \in Calls : Done(c) => (Ok(c) \/ out[c] = Failed(ConcurrencyError))
  /\ (Cardinality(StartedCalls) >= 2 /\ \A c \in StartedCalls : Done(c))
       => \E w \in StartedCalls :
             /\ Winners = {w}
             /\ IdVer(RowsOf("s1")) =
                  IdVer(BaseRows(BaseVersion + 1)) \cup RowsOfBatch(w, BaseVersion + 1)

\* three appends that expected the version of a stream with messages have
\* resolved: one has won, two have failed with ConcurrencyError
C1_Witness ==
  /\ BaseVersion >= 0
  /\ StartedCalls = Calls
  /\ \A c \in Calls : Done(c)
  /\ Cardinality(Winners) = 1
  /\ Cardinality({c \in Calls : FailedWith(c, "ConcurrencyError")}) >= 2

\* the messages of the callers that are taken as one step
OtherIds == {id \in MessageIds : id >= OtherId(0)}
\* the last attempt of the call has met a conflict too
Exhausted(c) ==
  /\ attempt[c] = tries
  /\ pc[c] \in {"settle", "done"}
  /\ isConcurrencyUniqueConstraintViolation(txn[c].ret)

\* C2, as the spec states it: appends with Any and distinct messageIds that
\* run together all succeed, however many there are; the versions of the
\* stream are 0, 1, .. without gap or duplicate, as many as messages were
\* appended.
C2_Original ==
  /\ \A c \in Calls : Done(c) => Ok(c)
  /\ Len(StreamVersions("s1")) = Cardinality(RowsOf("s1"))
  /\ Dense(StreamVersions("s1"))
  /\ (\A c \in StartedCalls : Done(c))
       => MessageIds = OtherIds \cup UNION {Range(arg[c].batch) : c \in StartedCalls}

\* C2, amended: appends with Any and distinct messageIds that run together
\* succeed, each unless it meets a conflict on every one of its 200 attempts,
\* which takes the commits of 200 other callers; the versions of the stream
\* are 0, 1, .. without gap or duplicate, as many as messages were appended
\* by the calls that succeeded.
C2_Amended ==
  /\ \A c \in Calls : Done(c) => (Ok(c) \/ Exhausted(c))
  /\ \A c \in Calls : Exhausted(c) => Cardinality(OtherIds) >= tries
  /\ Len(StreamVersions("s1")) = Cardinality(RowsOf("s1"))
  /\ Dense(StreamVersions("s1"))
  /\ (\A c \in StartedCalls : Done(c))
       => /\ MessageIds = OtherIds \cup UNION {Range(arg[c].batch) : c \in Winners}
          /\ Cardinality(RowsOf("s1")) = Cardinality(MessageIds)

\* all the appends have succeeded, one of them after a conflict and a retry
C2_Witness ==
  /\ StartedCalls = Calls
  /\ \A c \in Calls : Ok(c)
  /\ \E c \in Calls : attempt[c] >= 2
  /\ Len(StreamVersions("s1")) >= 3

\* C6, as the spec states it: an append with Any that meets a conflict is
\* tried again, makes 200 attempts at most, and fails with ConcurrencyError
\* when the last of them has met a conflict too.
C6_Original ==
  \A c \in Calls :
     /\ attempt[c] <= tries
     /\ (pc[c] = "settle" /\ isConcurrencyUniqueConstraintViolation(txn[c].ret)
           /\ attempt[c] < tries)
          => retry(retryableAppendToStream(txn[c], arg[c].ev), attempt[c])
     /\ (Done(c) /\ Exhausted(c)) => out[c] = Failed(ConcurrencyError)

\* what holds of the retries: a conflict is tried again while attempts are
\* left, there are 200 at most, and the call ends when the last has failed
C6_Bounded ==
  \A c \in Calls :
     /\ attempt[c] <= tries
     /\ (pc[c] = "settle" /\ isConcurrencyUniqueConstraintViolation(txn[c].ret))
          => (retry(retryableAppendToStream(txn[c], arg[c].ev), attempt[c])
                <=> attempt[c] < tries)
     /\ (Done(c) /\ Exhausted(c)) => out[c] = Failed(txn[c].ret)

\* --------------------------------------------- properties of the arguments
\* an id that starts with "$"
Reserved(streamId) == streamId \in AllStreams \ UserStreams

\* the inputs C11 calls invalid
InvalidInput(streamId, expectedVersion, newMessages) ==
  \/ streamId.type # "string"
  \/ streamId.str = ""
  \/ Reserved(streamId.str)
  \/ expectedVersion.type = "undefined"
  \/ \E i \in DOMAIN newMessages :
        LET m == newMessages[i]
        IN \/ m.messageId.type = "undefined"
           \/ m.messageId.str # "uuid"
           \/ m.type.type = "undefined"
           \/ m.data.type = "undefined"

\* C11: an appendToStream call with an invalid input (streamId missing, no
\* string, empty or starting with "$"; expectedVersion missing; a message
\* without messageId, with a messageId that is no UUID, without type or
\* without data) fails with InvalidParameterError before any I/O: the call
\* is over at once, it has not entered the write latch, it has made no
\* attempt on the storage, and the store is as it was.
C11_InvalidInputRejected ==
  [][\A c \in Calls :
       \A g \in ArgumentsGiven(c) :
          (/\ pc[c] = "idle" /\ pc'[c] # "idle"
           /\ InvalidInput(g[1], g[2], g[3])
           /\ AppendToStreamWith(c, g[1], g[2], g[3]))
            => /\ out'[c] = Failed(InvalidParameterError)
               /\ pc'[c] = "done"
               /\ UNCHANGED <<storeVars, latchCount, entered, attempt, txn>>]_vars

\* a call with a stream id of the caller's own was refused for its
\* expectedVersion or its messages, in a store that holds messages
C11_Witness ==
  \E c \in Calls :
     /\ op[c] = "append"
     /\ FailedWith(c, "InvalidParameterError")
     /\ arg[c].stream \in UserStreams
     /\ entered[c] = 0 /\ attempt[c] = 0 /\ txn[c] = NoTxn
     /\ message # {}

\* C12, as the spec states it: every public write operation called with a
\* stream id that starts with "$" is rejected, and writes or deletes nothing
\* in that stream.
C12_Original ==
  \A c \in Calls :
     (Started(c) /\ Reserved(arg[c].stream))
       => /\ FailedWith(c, "InvalidParameterError")
          /\ attempt[c] = 0
          /\ ~txn[c].existed

\* C13, as the spec states it: appendToStream accepts an expectedVersion
\* only if it is an integer >= 0, Any or Empty; any other value fails with
\* InvalidParameterError before any I/O.
C13_Original ==
  \A c \in Calls :
     (Started(c) /\ op[c] = "append" /\ arg[c].ev \notin Nat \cup {Any, Empty})
       => /\ FailedWith(c, "InvalidParameterError")
          /\ entered[c] = 0
          /\ attempt[c] = 0

\* ------------------------------------------------ properties of the result
\* C14: a successful append of k >= 1 messages with a matching expected
\* version (Empty on a stream that is not there counts as v = -1, otherwise
\* the stream's version v) returns streamVersion = v + k.
C14_VersionAfterAppend ==
  \A c \in Calls :
     (op[c] = "append" /\ Ok(c) /\ arg[c].ev # Any /\ Len(arg[c].batch) >= 1)
       => out[c].streamVersion = arg[c].ev + Len(arg[c].batch)

\* an append with Empty created the stream, an append of two messages with
\* expected version 0 followed and returned 2
C14_Witness ==
  \E c, d \in Calls :
     /\ op[c] = "append" /\ Ok(c) /\ arg[c].ev = Empty
     /\ out[c].streamVersion = Len(arg[c].batch) - 1
     /\ op[d] = "append" /\ Ok(d) /\ arg[d].ev = 0
     /\ Len(arg[d].batch) = 2 /\ out[d].streamVersion = 2

\* an attempt of appendToStream or deleteStream has ended with a failure of
\* the storage that is neither a conflict nor a duplicate
Faulted(c) == op[c] \in {"append", "deleteStream"} /\ txn[c].ret = StorageFault

\* C15, as the spec states it: an unclassified storage or transport failure
\* during appendToStream or deleteStream is surfaced to the caller unchanged
\* after exactly one attempt; it is never retried, also with Any.
C15_Original ==
  \A c \in Calls :
     /\ (pc[c] = "settle" /\ Faulted(c))
          => ~retry(retryableAppendToStream(txn[c], arg[c].ev), attempt[c])
     /\ (Done(c) /\ Faulted(c))
          => (out[c] = Failed(StorageFault) /\ attempt[c] = 1)

\* C15, amended: the failure is surfaced unchanged and the attempt that met
\* it is never retried, also with Any; it is the call's only attempt unless
\* the expected version is Any and earlier attempts met a conflict.
C15_Amended ==
  \A c \in Calls :
     /\ (pc[c] = "settle" /\ Faulted(c))
          => ~retry(retryableAppendToStream(txn[c], arg[c].ev), attempt[c])
     /\ (Done(c) /\ Faulted(c))
          => (out[c] = Failed(StorageFault) /\ (arg[c].ev # Any => attempt[c] = 1))

\* an append with Any and a deleteStream have both ended with the failure
\* of the storage, the append on its first attempt
C15_Witness ==
  \E c, d \in Calls :
     /\ op[c] = "append" /\ arg[c].ev = Any /\ Done(c) /\ Faulted(c)
     /\ attempt[c] = 1 /\ out[c] = Failed(StorageFault)
     /\ op[d] = "deleteStream" /\ Done(d) /\ Faulted(d)
     /\ out[d] = Failed(StorageFault)

\* ------------------------------------------------- properties of the reads
StreamRead(r) == rd[r].pc = "done" /\ ~rd[r].all
AllRead(r) == rd[r].pc = "done" /\ rd[r].all

\* the rows the stream held, when its messages were read, from the version
\* asked for on in the direction read; Position.End is after every version
Held(r) ==
  {m \in rd[r].table :
     /\ m.stream = rd[r].streamId
     /\ IF rd[r].forward
        THEN rd[r].from # PositionEnd /\ m.ver >= rd[r].from
        ELSE rd[r].from = PositionEnd \/ m.ver <= rd[r].from}

\* C16: readStream on an existing stream returns at most count messages,
\* and isEnd is false exactly when the storage holds at least count + 1
\* messages from `from` on in the read direction.
C16_IsEndByProbe ==
  \A r \in Reads :
     (StreamRead(r) /\ rd[r].info.exists)
       => /\ Len(rd[r].result.messages) <= rd[r].count
          /\ rd[r].result.isEnd = FALSE <=> Cardinality(Held(r)) >= rd[r].count + 1

\* a read of 2 messages found 3 or more and said that it was not the end
C16_Witness ==
  \E r \in Reads :
     /\ StreamRead(r) /\ rd[r].info.exists
     /\ rd[r].count = 2 /\ Len(rd[r].result.messages) = 2
     /\ Cardinality(Held(r)) >= 3
     /\ ~rd[r].result.isEnd

\* C17: nextVersion is, forward, streamInfo.streamVersion + 1 when isEnd
\* and lastMessage.streamVersion + 1 otherwise; backward it is
\* max(0, (isEnd ? 0 : lastMessage.streamVersion) - 1); a stream that is not
\* there gives the zero result.
C17_NextVersion ==
  \A r \in Reads :
     StreamRead(r)
       => LET page == rd[r].result
              lastMessage == page.messages[Len(page.messages)]
          IN IF ~rd[r].info.exists
             THEN /\ page.streamVersion = 0 /\ page.nextVersion = 0
                  /\ page.isEnd /\ page.messages = <<>>
             ELSE page.nextVersion =
                    IF rd[r].forward
                    THEN (IF page.isEnd THEN rd[r].info.version
                          ELSE lastMessage.streamVersion) + 1
                    ELSE Max(0, (IF page.isEnd THEN 0
                                 ELSE lastMessage.streamVersion) - 1)

\* a forward read returned the last page of a stream that grew between its
\* two queries: nextVersion is after the stream's version, not after the
\* last message of the page
C17_Witness ==
  \E r \in Reads :
     /\ StreamRead(r) /\ rd[r].info.exists /\ rd[r].forward
     /\ rd[r].result.isEnd /\ rd[r].result.messages # <<>>
     /\ rd[r].before.exists /\ rd[r].info.version > rd[r].before.version
     /\ rd[r].result.nextVersion = rd[r].info.version + 1
     /\ rd[r].result.nextVersion >
          rd[r].result.messages[Len(rd[r].result.messages)].streamVersion + 1

\* the stream information is not behind the messages of the page
Covers(page) ==
  \A i \in DOMAIN page.messages :
     /\ page.streamVersion >= page.messages[i].streamVersion
     /\ page.streamPosition >= page.messages[i].position

\* C18, as the spec states it: in every readStream result, also when
\* appends are interleaved between the message read and the stream-info
\* read, the returned streamVersion and streamPosition are >= the version
\* and position of every returned message.
C18_Original == \A r \in Reads : StreamRead(r) => Covers(rd[r].result)

\* C18, amended: the same of every readStream result between whose two
\* reads no deletion of a stream was committed.
C18_Amended ==
  \A r \in Reads : (StreamRead(r) /\ rd[r].deleted = {}) => Covers(rd[r].result)

\* an append was committed between the two reads, and the page has messages
C18_Witness ==
  \E r \in Reads :
     /\ StreamRead(r) /\ rd[r].deleted = {}
     /\ rd[r].result.messages # <<>>
     /\ rd[r].info.exists /\ rd[r].before.exists
     /\ rd[r].info.version > rd[r].before.version

\* C19, as the spec states it: readAll's nextPosition is
\* lastMessage.position + 1 for a non-empty forward page,
\* max(0, lastMessage.position - 1) for a non-empty backward page, the input
\* fromPosition for an empty forward page and 0 for an empty backward page.
C19_Original ==
  \A r \in Reads :
     AllRead(r)
       => LET page == rd[r].result
              lastMessage == page.messages[Len(page.messages)]
          IN page.nextPosition =
               IF page.messages # <<>>
               THEN (IF rd[r].forward THEN lastMessage.position + 1
                     ELSE Max(0, lastMessage.position - 1))
               ELSE (IF rd[r].forward THEN rd[r].from ELSE 0)

\* C19, amended: the same, but for an empty forward page the position read
\* from, which is 9223372036854775807 when the input was Position.End.
C19_Amended ==
  \A r \in Reads :
     AllRead(r)
       => LET page == rd[r].result
              lastMessage == page.messages[Len(page.messages)]
          IN page.nextPosition =
               IF page.messages # <<>>
               THEN (IF rd[r].forward THEN lastMessage.position + 1
                     ELSE Max(0, lastMessage.position - 1))
               ELSE (IF rd[r].forward
                     THEN (IF rd[r].from = PositionEnd THEN MaxBigValue
                           ELSE rd[r].from)
                     ELSE 0)

\* a store with messages was read forward from Position.End
C19_Witness ==
  \E r \in Reads :
     /\ AllRead(r) /\ rd[r].forward /\ rd[r].from = PositionEnd
     /\ rd[r].table # {}
     /\ rd[r].result.messages = <<>>
     /\ rd[r].result.nextPosition = MaxBigValue

\* the rows a read from Position.End has to choose from: the message table
\* for readAll, the rows of the stream for readStream, none when the
\* stream is not there
Readable(r) ==
  IF rd[r].all THEN rd[r].table
  ELSE IF rd[r].info.exists
  THEN {m \in rd[r].table : m.stream = rd[r].streamId}
  ELSE {}

\* C20: reading from Position.End backward returns the tail (the last
\* `count` messages, newest first) and reading from Position.End forward
\* returns no messages with isEnd = true, for readStream and readAll,
\* whatever the store holds.
C20_FromEnd ==
  \A r \in Reads :
     (rd[r].pc = "done" /\ rd[r].from = PositionEnd)
       => LET page == rd[r].result
              rows == Readable(r)
              newer(m) == {q \in rows : IF rd[r].all THEN q.pos > m.pos
                                        ELSE q.ver > m.ver}
              tail == {m \in rows : Cardinality(newer(m)) < rd[r].count}
              key(i) == IF rd[r].all THEN page.messages[i].position
                        ELSE page.messages[i].streamVersion
          IN IF rd[r].forward
             THEN page.messages = <<>> /\ page.isEnd
             ELSE /\ Len(page.messages) = Cardinality(tail)
                  /\ {page.messages[i].messageId : i \in DOMAIN page.messages}
                       = {m.id : m \in tail}
                  /\ \A i \in 1..(Len(page.messages) - 1) : key(i) > key(i + 1)

\* a stream of 3 or more messages was read backward from Position.End, 2
\* messages at a time
C20_Witness ==
  \E r \in Reads :
     /\ StreamRead(r) /\ rd[r].from = PositionEnd /\ ~rd[r].forward
     /\ rd[r].count = 2 /\ Len(rd[r].result.messages) = 2
     /\ Cardinality(Readable(r)) >= 3


\* ------------------------------------------------------- gaps in readAll
\* the page has fewer rows than were asked for
Short(page, count) == Len(page.messages) < count
\* no two neighbours of the page are more than one position apart
Gapless(page) ==
  \A i \in 1..(Len(page.messages) - 1) :
     page.messages[i + 1].position - page.messages[i].position <= 1

\* the forward readAll calls that have read
ForwardRead(r) == rd[r].all /\ rd[r].forward /\ rd[r].pc # "idle"

\* C21: a forward readAll whose page is full and has a gap reads the page
\* again, at most gapReloadTimes times; every page before the one it returns
\* had a gap, the page it returns is the last one it read, and that page has
\* a gap only when no reload was left; it makes at most 1 + gapReloadTimes
\* raw reads, and a reader that waits for a reload has a read left and the
\* pool to make it on.
C21_GapReloads ==
  \A r \in Reads : ForwardRead(r) =>
     LET pages == rd[r].pages
         last == pages[Len(pages)]
     IN /\ Len(pages) = 1 + rd[r].reloads
        /\ Len(pages) <= 1 + gapReloadTimes
        /\ \A i \in 1..(Len(pages) - 1) :
              ~Short(pages[i], rd[r].count) /\ ~Gapless(pages[i])
        /\ rd[r].pc = "gap" =>
              /\ ~Short(last, rd[r].count) /\ ~Gapless(last)
              /\ Len(pages) < 1 + gapReloadTimes
              /\ ~poolEnded
        /\ rd[r].pc = "done" =>
              /\ rd[r].result = last
              /\ (~Short(last, rd[r].count) /\ ~Gapless(last))
                    => Len(pages) = 1 + gapReloadTimes

\* a readAll found a gap that a transaction still running had left, read
\* again after the transaction had committed and returned the page without
\* the gap
C21_Witness ==
  \E r \in Reads :
     /\ ForwardRead(r) /\ rd[r].pc = "done"
     /\ Len(rd[r].pages) = 2
     /\ ~Gapless(rd[r].pages[1])
     /\ Gapless(rd[r].result)
     /\ Len(rd[r].result.messages) = rd[r].count
     /\ \E i \in 1..Len(rd[r].result.messages) :
           \A j \in 1..Len(rd[r].pages[1].messages) :
              rd[r].pages[1].messages[j].position # rd[r].result.messages[i].position

\* C22: a readAll returns the page of a raw read as the storage answered
\* it; a forward readAll whose first page is short or has no gap, and every
\* backward readAll, returns after that one raw read.
C22_AsIs ==
  [][\A r \in Reads : (rd'[r] # rd[r] /\ rd'[r].all) =>
        /\ rd'[r].result = readAllInternal(rd'[r].from, rd'[r].count, rd'[r].forward)
        /\ (\/ ~rd'[r].forward
            \/ Short(rd'[r].pages[1], rd'[r].count)
            \/ Gapless(rd'[r].pages[1]))
             => (rd'[r].pc = "done" /\ Len(rd'[r].pages) = 1 /\ rd'[r].reloads = 0)]_vars

\* a forward readAll returned, after one raw read, a page that was not full
\* and skips the position of a transaction that is still running
C22_Witness ==
  \E r \in Reads :
     /\ rd[r].all /\ rd[r].pc = "done" /\ Len(rd[r].pages) = 1
     /\ rd[r].forward
     /\ Short(rd[r].result, rd[r].count)
     /\ ~Gapless(rd[r].result)

\* -------------------------------------------------------- subscriptions
\* the numbers of the sequence are strictly ascending
Ascending(numbers) == \A i \in 1..(Len(numbers) - 1) : numbers[i] < numbers[i + 1]

\* C24: within a stream subscription at most one processMessage call is
\* unresolved at any time, one is while the driver processes and none
\* otherwise, and the stream versions passed to processMessage so far are
\* strictly increasing.
C24_OneAtATime ==
  \A s \in Subs : ~sub[s].all =>
     /\ sub[s].running <= 1
     /\ (sub[s].running = 1) <=> (sub[s].state \in {"processing", "stopping"})
     /\ Ascending(sub[s].delivered)
     /\ sub[s].state = "processing" =>
           sub[s].delivered[Len(sub[s].delivered)] = Head(sub[s].page)

\* a subscription with the default page size is processing its third message
\* while an append has not resolved yet
C24_Witness ==
  \E s \in Subs :
     /\ sub[s].state = "processing"
     /\ Len(sub[s].delivered) >= 3
     /\ sub[s].count = maxCountPerRead
     /\ \E c \in Calls : op[c] = "append" /\ pc[c] \notin {"idle", "done"}

\* C23: the positions an all-subscription passes to processMessage are
\* strictly ascending, so it never passes p, then a position above p + 1,
\* and later p + 1, also when the transaction of p + 1 commits after p + 2
\* has become visible.
C23_AscendingPositions ==
  \A s \in Subs : sub[s].all =>
     /\ Ascending(sub[s].delivered)
     /\ \A i, j, k \in DOMAIN sub[s].delivered :
           (i < j /\ j < k /\ sub[s].delivered[j] > sub[s].delivered[i] + 1)
              => sub[s].delivered[k] # sub[s].delivered[i] + 1

\* the message at position p
Committed(p) == \E m \in message : m.pos = p
\* subscription s has passed the message at p to processMessage
Passed(s, p) == \E i \in DOMAIN sub[s].delivered : sub[s].delivered[i] = p

\* an all-subscription has processed p and then p + 2, the message at p + 1
\* has been committed since, and the subscription has read on past it
C23_Witness ==
  \E s \in Subs :
     /\ sub[s].all
     /\ \E i \in 1..(Len(sub[s].delivered) - 1) :
           /\ sub[s].delivered[i + 1] = sub[s].delivered[i] + 2
           /\ Committed(sub[s].delivered[i] + 1)
     /\ sub[s].state = "live"
     /\ \A c \in Calls : pc[c] = "done"

\* the positions a behaviour may hand out
Positions == 0..(MaxBase + AllCalls)

\* C25 as stated, for an all-subscription that is never disposed and whose
\* processMessage always resolves: every message that is committed at a
\* position from the subscription's starting point on is passed to
\* processMessage in the end.  The driver reads from its next position on and
\* never goes back, so a message that is to be passed in the end has been
\* passed once the driver has read past it.
C25_Original ==
  \A s \in Subs, p \in Positions :
     (/\ sub[s].all
      /\ sub[s].start # NotGiven
      /\ p >= sub[s].start
      /\ p < sub[s].next
      /\ Committed(p)) => Passed(s, p)

\* the same as a property of the behaviours in which every step that can be
\* taken is taken in the end: again and again, and with a finite store in
\* the end for good, no committed message from the starting point on is
\* left that has not been passed
C25_EventuallyPassed ==
  []<>(\A s \in Subs, p \in Positions :
         (sub[s].all /\ sub[s].start # NotGiven /\ p >= sub[s].start /\ Committed(p))
            => Passed(s, p))

\* what holds of a stream subscription: it has passed every message of its
\* stream from its starting version up to the version it reads from next
C25_StreamNeverSkips ==
  \A s \in Subs : (~sub[s].all /\ sub[s].start # NotGiven) =>
     \A m \in message :
        (m.stream = sub[s].streamId /\ m.ver >= sub[s].start /\ m.ver < sub[s].next)
           => Passed(s, m.ver)

\* C30 as stated: once a subscription made with an onEstablished callback
\* has resolved where it starts, that callback has been called exactly once.
C30_Original ==
  \A s \in Subs :
     (sub[s].onEstablished /\ sub[s].start # NotGiven) => sub[s].callbacks = 1

\* what holds: the driver calls the onEstablished it was given, which is the
\* store's own, once, when it has resolved where it starts
C30_StoreCallbackOnce ==
  \A s \in Subs :
     /\ sub[s].established <= 1
     /\ (sub[s].established = 1) <=> (sub[s].start # NotGiven)

\* C26 as stated: a dispose() call made after dispose() has returned ends
\* without an error, and has neither disposed the notifier nor ended the
\* pool again.
C26_Original ==
  /\ again.pc # "failed"
  /\ again.pc \in {"ending", "returned"} => (~again.notifier /\ ~again.pool)

\* ------------------------------------------------------ stream metadata
\* the getStreamMetadata calls that have returned
MetadataRead(r) == rd[r].pc = "done" /\ rd[r].streamId \in MetaStreams
\* the setStreamMetadata calls whose message was committed when the read was made
SetBefore(r) ==
  {c \in Calls : op[c] = "setMeta" /\ \E m \in rd[r].table : m.id = v4(c)}
\* the options of the most recent of them
LatestOptions(r) ==
  LET c == CHOOSE c \in SetBefore(r) : \A d \in SetBefore(r) : d <= c
  IN (CHOOSE row \in payload : row.id = v4(c)).opts

C28_Original ==
  \A c \in Calls :
     (op[c] = "setMeta" /\ arg[c].ev # Any /\ Done(c) /\ out[c].status = "err")
        => out[c].err.kind = "ConcurrencyError"

\* ------------------------------------------------------------ the latch
\* the sections that were entered before dispose() was called
EnteredBefore == {c \in Calls : entered[c] > 0 /\ ~atCall[c].disposing}

Conflict(t) ==
  \/ t.version = ConcurrencyIssue
  \/ t.ret # NoError /\ isConcurrencyUniqueConstraintViolation(t.ret)

\* C31 (as stated): the sentinel -9 is classified like the two constraint
\* violations: an appendToStream with Any whose attempt ended in a conflict is
\* retried (it does not end with that attempt while attempts are left), and
\* with any other expected version it fails with ConcurrencyError.
C31_Original ==
  \A c \in Calls :
     (op[c] = "append" /\ Done(c) /\ Conflict(txn[c]) /\ attempt[c] < tries)
        => (arg[c].ev # Any /\ FailedWith(c, "ConcurrencyError"))

\* the part of C31 that holds: a violation of the two keys is retried with
\* Any, and every conflict of a call with another expected version, the
\* sentinel included, ends it with ConcurrencyError
C31_ViolationsRetried ==
  \A c \in Calls :
     (op[c] = "append" /\ Done(c) /\ Conflict(txn[c]) /\ attempt[c] < tries)
        => /\ FailedWith(c, "ConcurrencyError")
           /\ arg[c].ev = Any => txn[c].version = ConcurrencyIssue

\* the operations that run their transaction under retry
Retried == {"append", "deleteStream"}

\* C32: retries happen only for a conflict of an appendToStream or a
\* deleteStream called with Any: every further attempt follows an attempt of
\* such a call that ended in a conflict, and a call with another expected
\* version whose attempt ended in a conflict ends there, after exactly one
\* storage attempt, with ConcurrencyError.
C32_RetryOnlyAny ==
  [][\A c \in Calls :
        /\ (attempt[c] > 0 /\ attempt'[c] > attempt[c])
              => (op[c] \in Retried /\ arg[c].ev = Any /\ Conflict(txn[c]))
        /\ (op[c] \in Retried /\ arg[c].ev # Any /\ pc[c] = "settle"
            /\ Conflict(txn[c]) /\ pc'[c] # pc[c])
              => /\ attempt[c] = 1
                 /\ attempt'[c] = 1
                 /\ pc'[c] = "done"
                 /\ out'[c] = Failed(ConcurrencyError)]_vars

\* an appendToStream with Empty has lost to the call that made the stream:
\* its one attempt ended in a violation and the call with ConcurrencyError
C32_Witness ==
  \E c \in Calls :
     /\ op[c] = "append"
     /\ arg[c].ev = Empty
     /\ FailedWith(c, "ConcurrencyError")
     /\ attempt[c] = 1
     /\ isConcurrencyUniqueConstraintViolation(txn[c].ret)
     /\ \E d \in Calls \ {c} : Ok(d) /\ Target(d) = Target(c)

\* ------------------------------------------------ what an append leaves
\* the rows of the message table with the messageId
RowsWithId(id) == {m \in message : m.id = id}
\* the call is an appendToStream with Any that has succeeded after a retry
RetriedAny(c) == op[c] = "append" /\ arg[c].ev = Any /\ Ok(c) /\ attempt[c] > 1

\* C33: an appendToStream with Any that has succeeded after a retry has
\* persisted its batch exactly once: each of its messages is in the table
\* once, in its stream; the batch has consecutive versions in the order
\* given, ending at the version the call returned; and each of its messages
\* has a position above that of every message of the stream with a lower
\* version, which are the messages that were there before and the messages
\* of the batch before it.
C33_BatchOnce ==
  \A c \in Calls :
     RetriedAny(c) =>
        LET batch == arg[c].batch
            n == Len(batch)
        IN \A i \in 1..n :
              /\ Cardinality(RowsWithId(batch[i])) = 1
              /\ \A row \in RowsWithId(batch[i]) :
                    /\ row.stream = arg[c].stream
                    /\ row.ver = out[c].streamVersion - n + i
                    /\ i = n => row.pos = out[c].streamPosition
                    /\ \A m \in RowsOf(arg[c].stream) :
                          m.ver < row.ver => m.pos < row.pos

\* an append of two messages has succeeded on its second or a later
\* attempt, on top of the messages of the callers it lost to
C33_Witness ==
  \E c \in Calls :
     /\ RetriedAny(c)
     /\ Len(arg[c].batch) = 2
     /\ out[c].streamVersion >= 2
     /\ \A i \in 1..2 : RowsWithId(arg[c].batch[i]) # {}

\* the call is an appendToStream that has failed
FailedAppend(c) == op[c] = "append" /\ Done(c) /\ out[c].status = "err"
\* the row is one of the batch of call c, whose transaction has committed
WrittenBy(m, c) ==
  /\ m.id \in Range(arg[c].batch)
  /\ pc[c] \in {"settle", "done"}
  /\ txn[c].version >= m.ver
  /\ txn[c].position >= m.pos
\* the row with the highest version of a non-empty set of rows
LastRow(rows) == CHOOSE r \in rows : \A q \in rows : q.ver <= r.ver

\* C34: an appendToStream that has failed, with ConcurrencyError,
\* DuplicateMessageError or the failure of the storage, has left nothing: its
\* transaction has not committed, and a message of its batch that is in the
\* table, one that came before the message that was refused as well, was
\* written by another call; every message in the table is there once and is
\* of a call whose transaction committed and that has not failed; and the
\* stream row is the one the committed batches make: absent when there is
\* none, else the version and position of their last message.
C34_FailedLeavesNothing ==
  /\ \A c \in Calls :
        FailedAppend(c) =>
           /\ txn[c].position = -1
           /\ \A m \in message :
                 m.id \in Range(arg[c].batch) => \E d \in Calls \ {c} : WrittenBy(m, d)
  /\ \A m \in message :
        /\ Cardinality(RowsWithId(m.id)) = 1
        /\ \E c \in Calls : WrittenBy(m, c) /\ ~FailedAppend(c)
  /\ stream["s1"] =
        IF RowsOf("s1") = {}
        THEN NoStream
        ELSE [exists |-> TRUE, version |-> Cardinality(RowsOf("s1")) - 1,
              position |-> LastRow(RowsOf("s1")).pos]

\* an append of <<own message, message of call 1>> has failed on the second
\* message of its batch, which was in the table, and an append has failed
\* with ConcurrencyError or the storage's failure
C34_Witness ==
  \E c, d \in Calls :
     /\ c # d
     /\ FailedWith(c, "DuplicateMessageError")
     /\ arg[c].batch = <<2 * c, 1>>
     /\ out[c].err.id = 1
     /\ Ok(d)
     /\ stream["s1"].exists

\* ------------------------------------------------- the pool and the writes
\* the call has a storage transaction in progress or still to start
Transacting(c) == pc[c] \in {"read", "insert", "commit", "delete"}

\* C35 (as stated): the pool is never ended while a write operation is still
\* running: once dispose() has called pool.end(), no appendToStream,
\* setStreamMetadata, deleteStream or deleteMessage has a transaction in
\* progress or still to start.
C35_Original == poolEnded => \A c \in Calls : ~Transacting(c)

\* the part of C35 that holds: no appendToStream, and no setStreamMetadata or
\* deleteMessage called before dispose(), has a transaction in progress or
\* to start when the pool has been ended
C35_EnteredBeforeDispose ==
  poolEnded =>
     \A c \in Calls :
        (op[c] # "deleteStream" /\ (op[c] = "append" \/ ~atCall[c].disposing))
           => ~Transacting(c)

\* ------------------------------------------- the list of subscriptions
\* the subscriptions that were created and are not disposed
Living == {s \in Subs : sub[s].state \notin {"none", "disposed"}}

\* C36 (as stated): the store's list holds exactly the subscriptions that
\* were created and are not yet disposed, each once, whatever was disposed
\* and however often; after dispose() has returned it is empty.
C36_Original ==
  /\ Range(subscriptions) = Living
  /\ Len(subscriptions) = Cardinality(Living)
  /\ dpc = "returned" => subscriptions = <<>>

\* the part of C36 that holds: with dispose() called on no subscription
\* that is disposed, the list holds the subscriptions that were created and
\* are not disposed, each once, also when subscriptions are made while
\* dispose() runs
C36_ExactWhenOnce ==
  /\ Range(subscriptions) = Living
  /\ Len(subscriptions) = Cardinality(Living)
  /\ \A s \in Subs : sub[s].tracked <=> s \in Living

\* ------------------------------------------- the version of the metadata
\* C37 (as stated): the metadataStreamVersion getStreamMetadata returns is
\* the stream version of the metadata message whose metadata it returns,
\* also when a setStreamMetadata on the stream commits during the read.
C37_Original ==
  \A r \in Reads :
     (MetadataRead(r) /\ Len(rd[r].result.messages) = 1)
        => getStreamMetadata(rd[r].result).metadataStreamVersion
             = rd[r].result.messages[1].streamVersion

\* the part of C37 that holds: the version returned is never below the
\* version of the message returned, and is the version the metadata stream
\* had when the read's second query was answered
C37_VersionOfStreamInfo ==
  \A r \in Reads :
     (MetadataRead(r) /\ Len(rd[r].result.messages) = 1)
        => /\ getStreamMetadata(rd[r].result).metadataStreamVersion
                >= rd[r].result.messages[1].streamVersion
           /\ getStreamMetadata(rd[r].result).metadataStreamVersion = rd[r].info.version

\* ------------------------------------------------- reading page by page
\* readAll on a store nobody writes to: forward, a page with a gap is read
\* once more after gapReloadDelay and the second reading is returned
readAll(fromPositionInclusive, count, forward) ==
  LET page == readAllInternal(fromPositionInclusive, count, forward)
  IN IF forward /\ HasGap(page, count) /\ gapReloadTimes > 0
     THEN readAllInternal(fromPositionInclusive, count, forward)
     ELSE page

\* where a caller goes on after a page: nextVersion of a stream page,
\* nextPosition of a page of all messages
ContinueFrom(r) ==
  IF rd[r].all THEN rd[r].result.nextPosition ELSE rd[r].result.nextVersion

\* the first page of a caller reading a stream from version 0 forward, or
\* from Position.End backward
PageStream(r, streamId, count, forward) ==
  /\ rd[r].pc = "idle"
  /\ count > 0
  /\ ~poolEnded
  /\ LET result == ReadStream(streamId, IF forward THEN 0 ELSE PositionEnd,
                              count, forward)
     IN rd' = [rd EXCEPT ![r] =
                 [NoRead EXCEPT !.pc = IF result.isEnd THEN "paged" ELSE "paging",
                                !.streamId = streamId, !.count = count,
                                !.forward = forward, !.result = result,
                                !.got = result.messages, !.turns = 1]]
  /\ UNCHANGED <<storeVars, callVars, lifeVars, subVars, restVars>>

\* the first page of a caller reading all messages from position 0 forward,
\* or from Position.End backward
PageAll(r, count, forward) ==
  /\ rd[r].pc = "idle"
  /\ count > 0
  /\ ~poolEnded
  /\ LET result == readAll(IF forward THEN 0 ELSE PositionEnd, count, forward)
     IN rd' = [rd EXCEPT ![r] =
                 [NoRead EXCEPT !.pc = IF result.isEnd THEN "paged" ELSE "paging",
                                !.all = TRUE, !.count = count,
                                !.forward = forward, !.result = result,
                                !.got = result.messages, !.turns = 1]]
  /\ UNCHANGED <<storeVars, callVars, lifeVars, subVars, restVars>>

\* the caller's next page, read from where the page before told to go on,
\* until a page says isEnd
PageNext(r) ==
  /\ rd[r].pc = "paging"
  /\ ~poolEnded
  /\ LET result == IF rd[r].all
                   THEN readAll(ContinueFrom(r), rd[r].count, rd[r].forward)
                   ELSE ReadStream(rd[r].streamId, ContinueFrom(r), rd[r].count,
                                   rd[r].forward)
     IN rd' = [rd EXCEPT ![r].pc = IF result.isEnd THEN "paged" ELSE "paging",
                         ![r].result = result,
                         ![r].got = @ \o result.messages,
                         ![r].turns = @ + 1]
  /\ UNCHANGED <<storeVars, callVars, lifeVars, subVars, restVars>>

\* a store with some messages, written to by one operation after the other
\* and by none once a caller has begun to read
InitPaging ==
  /\ \E n \in 0..MaxBase :
        /\ stream = [s \in AllStreams |->
                       IF s = "s1" /\ n > 0
                       THEN [exists |-> TRUE, version |-> n - 1, position |-> n - 1]
                       ELSE NoStream]
        /\ message = BaseRows(n)
        /\ seq = n
  /\ InitCalls(PagingCalls)
  /\ InitLife
  /\ InitSubs(0)
  /\ InitReads(1)

Unread == \A r \in Reads : rd[r].pc = "idle"

PagingAppend ==
  \E c \in Calls :
     \E b \in OwnBatches(c) :
        InOrder(c) /\ Quiet /\ Unread /\ AppendToStream(c, "s1", Any, b)
PagingDeleteMessage ==
  \E c \in Calls, i \in 1..MaxBase :
     InOrder(c) /\ Quiet /\ Unread /\ DeleteMessage(c, "s1", BaseId(i))
PagingSetMetadata ==
  \E c \in Calls :
     InOrder(c) /\ Quiet /\ Unread /\ SetStreamMetadata(c, "s1", Any)

PageSizes == 1..MaxPage

PagingStream ==
  \E r \in Reads, count \in PageSizes, forward \in BOOLEAN :
     Quiet /\ PageStream(r, "s1", count, forward)
PagingAll ==
  \E r \in Reads, count \in PageSizes, forward \in BOOLEAN :
     Quiet /\ PageAll(r, count, forward)

NextPaging ==
  \/ PagingAppend
  \/ PagingDeleteMessage
  \/ PagingSetMetadata
  \/ \E c \in Calls : TxRead(c)
  \/ \E c \in Calls : TxInsert(c)
  \/ \E c \in Calls : TxCommit(c)
  \/ \E c \in Calls : TxDeleteMessages(c)
  \/ \E c \in Calls : AppendSettle(c)
  \/ \E c \in Calls : DeleteMessagesSettle(c)
  \/ \E c \in Calls : SetMetadataSettle(c)
  \/ PagingStream
  \/ PagingAll
  \/ \E r \in Reads : PageNext(r)

SpecPaging == InitPaging /\ [][NextPaging]_vars

\* the messages a caller reading page by page is to get: those of the
\* stream by version, or all by position, in the direction read
Paged(r) ==
  LET rows == IF rd[r].all THEN OrderedByPosition(message, rd[r].forward)
              ELSE Ordered(RowsOf(rd[r].streamId), rd[r].forward)
  IN [i \in DOMAIN rows |-> mapMessageResult(rows[i])]

\* C38: on a store nobody writes to, the pages read from version 0 forward,
\* or from Position.End backward, each from the nextVersion of the page
\* before until isEnd, hold every message of the stream exactly once in
\* ascending, respectively descending, order of streamVersion, for every
\* page size; and so do the pages of readAll with nextPosition
C38_PagesCoverOnce ==
  \A r \in Reads :
     /\ rd[r].pc = "paging" =>
          /\ Len(rd[r].got) < Len(Paged(r))
          /\ rd[r].got = SubSeq(Paged(r), 1, Len(rd[r].got))
     /\ rd[r].pc = "paged" => rd[r].got = Paged(r)

\* a stream with a version deleted, and the table, read to the end in
\* three pages or more
C38_Witness ==
  \E r \in Reads :
     /\ rd[r].pc = "paged"
     /\ rd[r].turns >= 3
     /\ Len(rd[r].got) >= 3
     /\ \E i \in 1..(Len(rd[r].got) - 1) :
           LET a == rd[r].got[i]
               b == rd[r].got[i + 1]
           IN IF rd[r].all THEN a.position - b.position \notin {1, -1}
              ELSE a.streamVersion - b.streamVersion \notin {1, -1}

====
